---- MODULE Spec2Model ----
(***************************************************************************)
(* The resilient request pipeline of mcp-appstore-connect: the credential  *)
(* signer (auth/jwt.ts), the rate-limit tracker and backoff calculator     *)
(* (utils/rate-limiter.ts), the error classifier (utils/error-handler.ts)  *)
(* and the retry loop makeRequest (client/api-client.ts).                  *)
(*                                                                         *)
(* One action is one synchronous run of JavaScript between two awaits:     *)
(* the code suspends only at `await fetch`, `await response.json()` and    *)
(* `await sleep`, so everything between two of them is one atomic step.    *)
(***************************************************************************)
EXTENDS Integers, Sequences, FiniteSets, TLC

VARIABLES
    configOk,       \* process.env carries issuer id, key id and private key
    now,            \* the clock, in milliseconds (Date.now())
    cachedToken,    \* auth/jwt.ts: let cachedToken
    signCount,      \* number of jwt.sign invocations so far
    rateLimitInfo,  \* utils/rate-limiter.ts: const rateLimitInfo
    rejected,       \* tokens the remote service answered with 401/403
    serverQuota,    \* the x-rate-limit header the remote service puts on its responses
    pipe,           \* one makeRequest activation per pipeline
    signerLog,      \* the direct calls of generateToken and clearTokenCache, in order
    call,           \* a direct call of a function of utils: its arguments and its result
    server,         \* index.ts: how far main() has come, and the tool calls it has answered
    snapshots       \* the objects getRateLimitStatus() has returned, as their callers hold them

vars == <<configOk, now, cachedToken, signCount, rateLimitInfo, rejected, serverQuota, pipe,
          signerLog, call, server, snapshots>>

----------------------------------------------------------------------------
(* Program constants *)

TOKEN_EXPIRY_SECONDS == 1200
REFRESH_BEFORE_SECONDS == 120
MAX_RETRIES == 3
DefaultHourlyLimit == 3600
DefaultBaseDelay == 1000
DefaultMaxDelay == 60000
WarnThreshold == 500
ApproachThreshold == 100

----------------------------------------------------------------------------
(* JavaScript values: numbers, NaN and undefined *)

Num(n) == [t |-> "num", v |-> n]
NaN == [t |-> "nan", v |-> 0]
Undefined == [t |-> "undef", v |-> 0]

\* JavaScript truthiness of a number-or-undefined value
Truthy(x) == x.t = "num" /\ x.v # 0

Min(a, b) == IF a <= b THEN a ELSE b

RECURSIVE Pow2(_)
Pow2(n) == IF n = 0 THEN 1 ELSE 2 * Pow2(n - 1)

----------------------------------------------------------------------------
(* Strings are sequences of one-character strings *)

Digits == {"0", "1", "2", "3", "4", "5", "6", "7", "8", "9"}

DigitVal(c) ==
    CASE c = "0" -> 0 [] c = "1" -> 1 [] c = "2" -> 2 [] c = "3" -> 3
      [] c = "4" -> 4 [] c = "5" -> 5 [] c = "6" -> 6 [] c = "7" -> 7
      [] c = "8" -> 8 [] c = "9" -> 9

RECURSIVE SkipSpaces(_)
SkipSpaces(s) ==
    IF s # <<>> /\ Head(s) = " " THEN SkipSpaces(Tail(s)) ELSE s

\* The value of the longest prefix of digits of s, starting from acc
RECURSIVE DigitRun(_, _)
DigitRun(s, acc) ==
    IF s # <<>> /\ Head(s) \in Digits
    THEN DigitRun(Tail(s), 10 * acc + DigitVal(Head(s)))
    ELSE acc

\* parseInt(s, 10): leading blanks, an optional sign, then the longest run of
\* digits; NaN when there is no digit.
ParseInt(s) ==
    LET t == SkipSpaces(s)
        neg == t # <<>> /\ Head(t) = "-"
        u == IF t # <<>> /\ Head(t) \in {"-", "+"} THEN Tail(t) ELSE t
    IN IF u = <<>> \/ Head(u) \notin Digits THEN NaN
       ELSE Num(IF neg THEN 0 - DigitRun(u, 0) ELSE DigitRun(u, 0))

\* String.prototype.split(sep) for a one-character separator
RECURSIVE SplitAcc(_, _, _)
SplitAcc(s, sep, cur) ==
    IF s = <<>> THEN <<cur>>
    ELSE IF Head(s) = sep THEN <<cur>> \o SplitAcc(Tail(s), sep, <<>>)
    ELSE SplitAcc(Tail(s), sep, Append(cur, Head(s)))

Split(s, sep) == SplitAcc(s, sep, <<>>)

\* A header of a response: absent (headers.get gives null) or a string
NoHeader == [present |-> FALSE, s |-> <<>>]
Header(s) == [present |-> TRUE, s |-> s]

\* JavaScript truthiness of headers.get(name): null and "" are falsy
HeaderTruthy(h) == h.present /\ h.s # <<>>

KeyLim == <<"u","s","e","r","-","h","o","u","r","-","l","i","m">>
KeyRem == <<"u","s","e","r","-","h","o","u","r","-","r","e","m">>

----------------------------------------------------------------------------
(* utils/rate-limiter.ts: the rate-limit tracker and the backoff calculator *)

InitialRateLimitInfo ==
    [hourlyLimit |-> Num(DefaultHourlyLimit),
     hourlyRemaining |-> Num(DefaultHourlyLimit),
     lastUpdated |-> 0]

\* A loop body in which the remaining-key overwrites the limit as well
ApplyPartRemSetsBoth(info, part) ==
    LET kv == Split(part, ":")
        key == kv[1]
        value == IF Len(kv) >= 2 THEN ParseInt(kv[2]) ELSE NaN
    IN IF key = KeyLim THEN [info EXCEPT !.hourlyLimit = value]
       ELSE IF key = KeyRem THEN [info EXCEPT !.hourlyRemaining = value, !.hourlyLimit = value]
       ELSE info

\* One pass of the loop `for (const part of parts)`: [key, value] = part.split(":")
ApplyPart(info, part) ==
    LET kv == Split(part, ":")
        key == kv[1]
        value == IF Len(kv) >= 2 THEN ParseInt(kv[2]) ELSE NaN
    IN IF key = KeyLim THEN [info EXCEPT !.hourlyLimit = value]
       ELSE IF key = KeyRem THEN [info EXCEPT !.hourlyRemaining = value]
       ELSE info

\* A loop that stops after the first segment
ApplyFirstPartOnly(info, parts) ==
    IF parts = <<>> THEN info ELSE ApplyPart(info, Head(parts))

RECURSIVE ApplyParts(_, _)
ApplyParts(info, parts) ==
    IF parts = <<>> THEN info
    ELSE ApplyParts(ApplyPart(info, Head(parts)), Tail(parts))

\* A tracker that stamps lastUpdated whether or not there is a header
ParseRateLimitHeadersAlwaysStamps(info, header, t) ==
    [(IF ~HeaderTruthy(header) THEN info ELSE ApplyParts(info, Split(header.s, ";")))
        EXCEPT !.lastUpdated = t]

\* parseRateLimitHeaders(headers), run when Date.now() is t
ParseRateLimitHeaders(info, header, t) ==
    IF ~HeaderTruthy(header) THEN info
    ELSE [ApplyParts(info, Split(header.s, ";")) EXCEPT !.lastUpdated = t]

\* x < n in JavaScript: false when x is NaN
JsLess(x, n) == x.t = "num" /\ x.v < n

\* A near-limit test that includes the threshold itself
IsApproachingLimitInclusive(info) ==
    info.hourlyRemaining.t = "num" /\ info.hourlyRemaining.v <= ApproachThreshold

IsApproachingLimit(info) == JsLess(info.hourlyRemaining, ApproachThreshold)

\* A tracker test for the advisory log that uses the near-limit threshold
ShouldWarnWhenNearLimit(info) == JsLess(info.hourlyRemaining, ApproachThreshold)

\* A warning test that includes the threshold itself
ShouldWarnAboutRateLimitInclusive(info) ==
    info.hourlyRemaining.t = "num" /\ info.hourlyRemaining.v <= WarnThreshold

ShouldWarnAboutRateLimit(info) == JsLess(info.hourlyRemaining, WarnThreshold)

\* A backoff that starts at twice the base delay
CalculateBackoffDoubled(attempt, baseDelay, maxDelay, draw) ==
    Min(baseDelay * Pow2(attempt + 1), maxDelay)

\* A backoff without the cap
CalculateBackoffUncapped(attempt, baseDelay, maxDelay, draw) ==
    baseDelay * Pow2(attempt) + (baseDelay * Pow2(attempt) * draw) \div 4000

\* calculateBackoff(attempt, baseDelay, maxDelay) with Math.random() = draw / 1000
CalculateBackoff(attempt, baseDelay, maxDelay, draw) ==
    LET exponentialDelay == baseDelay * Pow2(attempt)
        jitter == (exponentialDelay * draw) \div 4000
    IN Min(exponentialDelay + jitter, maxDelay)

\* The values Math.random() takes in the model, in thousandths
JitterDraws == {0, 996}

----------------------------------------------------------------------------
(* utils/error-handler.ts: the error classes and the classifier *)

NoError ==
    [type |-> "none", status |-> 0, isRetryable |-> FALSE,
     retryAfter |-> Undefined, detail |-> "none"]

AppStoreConnectError(status, errors, isRetryable) ==
    [type |-> "AppStoreConnectError", status |-> status,
     isRetryable |-> isRetryable, retryAfter |-> Undefined, detail |-> errors]

AuthenticationError(status) ==
    [type |-> "AuthenticationError", status |-> status, isRetryable |-> FALSE,
     retryAfter |-> Undefined, detail |-> "Authentication failed"]

RateLimitError(retryAfter) ==
    [type |-> "RateLimitError", status |-> 0, isRetryable |-> FALSE,
     retryAfter |-> retryAfter, detail |-> "Rate limit exceeded"]

\* Any other thrown value: new Error(message), TypeError, SyntaxError
GenericError(message) ==
    [type |-> "Error", status |-> 0, isRetryable |-> FALSE,
     retryAfter |-> Undefined, detail |-> message]

\* The shapes of a parsed error body: "problems" is {errors: [...]}, "string" a
\* JSON string, "null" is null (also what .catch(() => null) gives for an
\* unparseable body), "badErrors" an object whose "errors" member is no array.
\* typeof body === "object" && body !== null && "errors" in body
HasErrorsMember(body) == body \in {"problems", "badErrors"}

\* A rule that takes server errors only for retryable
IsRetryableStatusServerOnly(status) == status >= 500

IsRetryableStatus(status) == status >= 500 \/ status = 429

\* parseErrorResponse(status, body). The constructor of AppStoreConnectError
\* calls errors.map, which throws a TypeError when errors is no array.
ParseErrorResponse(status, body) ==
    IF HasErrorsMember(body)
    THEN IF body = "problems"
         THEN [threw |-> FALSE,
               error |-> AppStoreConnectError(status, "problems", IsRetryableStatus(status))]
         ELSE [threw |-> TRUE, error |-> GenericError("TypeError")]
    ELSE [threw |-> FALSE,
          error |-> AppStoreConnectError(status, "UNKNOWN_ERROR", IsRetryableStatus(status))]

----------------------------------------------------------------------------
(* The state one synchronous run works on: the module-level state of the    *)
(* signer and the tracker, and the locals of one makeRequest activation.    *)

NoToken == [token |-> 0, expiresAt |-> 0]

\* The envelope of a page: its data array and links?.next ("absent" when the
\* envelope has no links or no next member)
NoPage == [data |-> <<>>, next |-> "absent"]

\* nextUrl = null
NoUrl == "null"

NoResponse ==
    [status |-> 0, retryAfter |-> NoHeader, rateLimit |-> NoHeader, body |-> "none",
     page |-> NoPage]

NoOutcome == [kind |-> "none", data |-> "none", error |-> NoError]

\* No function of utils has been called directly
NoCall == [fn |-> "none", args |-> <<>>, returned |-> FALSE, result |-> 0]

\* The process before main() runs: the McpServer object exists, nothing is
\* validated, registered or connected, and no tool call has been answered
NotStarted ==
    [phase |-> "loaded", exitCode |-> 0, validated |-> FALSE, tools |-> FALSE,
     resources |-> FALSE, transport |-> FALSE, handled |-> <<>>]

\* No caller holds a result of getRateLimitStatus(); op is what was done last
NoSnapshots == [held |-> <<>>, op |-> "none", target |-> 0]

\* An entry of the record of what one logical call did; n is the attempt index
Ev(k, x, n) == [k |-> k, x |-> x, n |-> n]

\* The locals of makeRequest before its loop starts.  hasBody is the truth of
\* options.body, which decides whether the request carries a payload; bodyArg
\* records whether the caller of get/post/patch/del handed a body over.
NewActivation(method, hasBody, bodyArg) ==
    [pc |-> "idle", method |-> method, hasBody |-> hasBody, bodyArg |-> bodyArg,
     attempt |-> 0, lastError |-> NoError,
     token |-> 0, response |-> NoResponse, wakeAt |-> 0, afterSleep |-> NoError,
     outcome |-> NoOutcome, log |-> <<>>, resps |-> <<>>,
     nextUrl |-> NoUrl, allData |-> <<>>]

Idle == NewActivation("none", FALSE, FALSE)

World(p) ==
    [cfg |-> configOk, t |-> now, cache |-> cachedToken, signs |-> signCount,
     info |-> rateLimitInfo, rejected |-> rejected, m |-> pipe[p],
     threw |-> FALSE, ret |-> 0]

Commit(p, w) ==
    /\ cachedToken' = w.cache
    /\ signCount' = w.signs
    /\ rateLimitInfo' = w.info
    /\ rejected' = w.rejected
    /\ pipe' = [pipe EXCEPT ![p] = w.m]

Log(w, k, x) == [w EXCEPT !.m.log = Append(@, Ev(k, x, w.m.attempt))]

----------------------------------------------------------------------------
(* auth/jwt.ts: the credential signer *)

\* Math.floor(Date.now() / 1000)
NowSeconds(t) == t \div 1000

\* A cache check that hands a token out until the second it expires
CacheIsFreshUntilExpiry(cache, seconds) ==
    cache # NoToken /\ cache.expiresAt - seconds > 0

\* A cache check that distrusts a token signed in the current second
CacheIsFreshAfterASecond(cache, seconds) ==
    /\ cache # NoToken
    /\ cache.expiresAt - seconds > REFRESH_BEFORE_SECONDS
    /\ cache.expiresAt - seconds < TOKEN_EXPIRY_SECONDS

\* A cache check that renews one second early
CacheIsFreshOneSecondEarly(cache, seconds) ==
    cache # NoToken /\ cache.expiresAt - seconds > REFRESH_BEFORE_SECONDS + 1

\* cachedToken && cachedToken.expiresAt - now > REFRESH_BEFORE_SECONDS
CacheIsFresh(cache, seconds) ==
    cache # NoToken /\ cache.expiresAt - seconds > REFRESH_BEFORE_SECONDS

\* A signer that renews a stale token by moving its expiry
GenerateTokenExtendsExpiry(w) ==
    IF ~w.cfg THEN [w EXCEPT !.threw = TRUE]
    ELSE IF CacheIsFresh(w.cache, NowSeconds(w.t)) THEN [w EXCEPT !.ret = w.cache.token]
    ELSE IF w.cache # NoToken
    THEN [w EXCEPT !.cache.expiresAt = NowSeconds(w.t) + TOKEN_EXPIRY_SECONDS,
                   !.ret = w.cache.token]
    ELSE LET token == w.signs + 1
         IN [Log(w, "sign", token) EXCEPT
                !.signs = token,
                !.cache = [token |-> token,
                           expiresAt |-> NowSeconds(w.t) + TOKEN_EXPIRY_SECONDS],
                !.ret = token]

\* A signer that never looks at its cache
GenerateTokenAlwaysSigns(w) ==
    LET token == w.signs + 1
    IN [Log(w, "sign", token) EXCEPT
           !.signs = token,
           !.cache = [token |-> token,
                      expiresAt |-> NowSeconds(w.t) + TOKEN_EXPIRY_SECONDS],
           !.ret = token]

\* generateToken(): getConfig() throws when the configuration is absent;
\* jwt.sign gives a token no earlier signature equals (ES256 signatures are
\* randomized), named here by its serial number.
GenerateToken(w) ==
    IF ~w.cfg THEN [w EXCEPT !.threw = TRUE]
    ELSE IF CacheIsFresh(w.cache, NowSeconds(w.t)) THEN [w EXCEPT !.ret = w.cache.token]
    ELSE LET token == w.signs + 1
         IN [Log(w, "sign", token) EXCEPT
                !.signs = token,
                !.cache = [token |-> token,
                           expiresAt |-> NowSeconds(w.t) + TOKEN_EXPIRY_SECONDS],
                !.ret = token]

\* An invalidation that leaves the cache as it is
ClearTokenCacheKeeps(w) == w

\* An invalidation that spares a token that is still fresh
ClearTokenCacheWhenStale(w) ==
    [Log(w, "invalidate", 0) EXCEPT
        !.cache = IF CacheIsFresh(w.cache, NowSeconds(w.t)) THEN @ ELSE NoToken]

ClearTokenCache(w) == [Log(w, "invalidate", 0) EXCEPT !.cache = NoToken]

----------------------------------------------------------------------------
(* client/api-client.ts: makeRequest *)

Return(w, data) ==
    [w EXCEPT !.m.pc = "done", !.m.response = NoResponse,
              !.m.outcome = [kind |-> "ok", data |-> data, error |-> NoError]]

Throw(w, error) ==
    [w EXCEPT !.m.pc = "done", !.m.response = NoResponse,
              !.m.outcome = [kind |-> "error", data |-> "none", error |-> error]]

\* await sleep(delay); `after` is the assignment that follows the await
Sleep(w, delay, after) ==
    [Log(w, "sleep", delay) EXCEPT
        !.m.pc = "sleeping", !.m.wakeAt = w.t + delay, !.m.afterSleep = after,
        !.m.response = NoResponse]

\* attempt < MAX_RETRIES - 1
AttemptsRemain(attempt) == attempt < MAX_RETRIES - 1

\* throw lastError || new Error("Request failed after maximum retries")
ExitLoop(w) ==
    Throw(w, IF w.m.lastError # NoError THEN w.m.lastError
             ELSE GenericError("Request failed after maximum retries"))

RECURSIVE LoopHead(_, _)

\* A catch block that does not record what it caught
CatchOtherForgets(w, error, draw) ==
    IF AttemptsRemain(w.m.attempt)
    THEN Sleep(w, CalculateBackoff(w.m.attempt, DefaultBaseDelay, DefaultMaxDelay, draw),
               NoError)
    ELSE LoopHead([w EXCEPT !.m.attempt = @ + 1], draw)

\* A catch block that keeps the first error it has recorded
CatchOtherKeepsFirst(w, error, draw) ==
    LET w1 == IF w.m.lastError = NoError THEN [w EXCEPT !.m.lastError = error] ELSE w
    IN IF AttemptsRemain(w1.m.attempt)
       THEN Sleep(w1, CalculateBackoff(w1.m.attempt, DefaultBaseDelay, DefaultMaxDelay, draw),
                  NoError)
       ELSE LoopHead([w1 EXCEPT !.m.attempt = @ + 1], draw)

\* The catch block for anything that is none of the three classified errors:
\* with no attempt left the block ends, attempt++ runs and the loop test fails
CatchOther(w, error, draw) ==
    LET w1 == [w EXCEPT !.m.lastError = error]
    IN IF AttemptsRemain(w1.m.attempt)
       THEN Sleep(w1, CalculateBackoff(w1.m.attempt, DefaultBaseDelay, DefaultMaxDelay, draw),
                  NoError)
       ELSE LoopHead([w1 EXCEPT !.m.attempt = @ + 1], draw)

\* A loop that runs once too often
LoopConditionOffByOne(attempt) == attempt <= MAX_RETRIES

\* The loop test
LoopCondition(attempt) == attempt < MAX_RETRIES

\* The head of the try block up to `await fetch(url, fetchOptions)`
TryAttempt(w, draw) ==
    LET g == GenerateToken(w)
    IN IF g.threw THEN CatchOther([g EXCEPT !.threw = FALSE], GenericError("config"), draw)
       ELSE [Log(g, "request", g.ret) EXCEPT
               !.m.pc = "fetching", !.m.token = g.ret, !.m.response = NoResponse]

\* One evaluation of the loop test, with the body or the exit that follows it
LoopHead(w, draw) ==
    IF LoopCondition(w.m.attempt) THEN TryAttempt(w, draw) ELSE ExitLoop(w)

\* `continue`: attempt++ and back to the loop test
Continue(w, draw) == LoopHead([w EXCEPT !.m.attempt = @ + 1], draw)

IsOk(status) == status >= 200 /\ status <= 299

IsAuthFailure(status) == status = 401 \/ status = 403

\* An authentication failure retried like any other failure
AuthRetryWhileAttemptsRemain(attempt) == attempt < MAX_RETRIES - 1

\* if (attempt === 0): the one retry an authentication failure gets
AuthRetryAllowed(attempt) == attempt = 0

\* retryAfter ? parseInt(retryAfter, 10) : undefined
RetryAfterSeconds(header) ==
    IF HeaderTruthy(header) THEN ParseInt(header.s) ELSE Undefined

\* A delay that ignores Retry-After
RateLimitDelayBackoffOnly(retryAfterSeconds, attempt, draw) ==
    CalculateBackoff(attempt, DefaultBaseDelay, DefaultMaxDelay, draw)

\* A delay that is held to the backoff maximum whatever the server asks for
RateLimitDelayCapped(retryAfterSeconds, attempt, draw) ==
    IF Truthy(retryAfterSeconds) THEN Min(retryAfterSeconds.v * 1000, DefaultMaxDelay)
    ELSE CalculateBackoff(attempt, DefaultBaseDelay, DefaultMaxDelay, draw)

\* retryAfterSeconds ? retryAfterSeconds * 1000 : calculateBackoff(attempt)
RateLimitDelay(retryAfterSeconds, attempt, draw) ==
    IF Truthy(retryAfterSeconds) THEN retryAfterSeconds.v * 1000
    ELSE CalculateBackoff(attempt, DefaultBaseDelay, DefaultMaxDelay, draw)

\* A tracker that is fed successful responses only
ObserveResponseWhenOk(w, response) ==
    IF response.status >= 200 /\ response.status <= 299
    THEN [Log(w, "observe", response.status) EXCEPT
             !.info = ParseRateLimitHeaders(w.info, response.rateLimit, w.t)]
    ELSE w

\* Lines 162-171: the tracker sees the headers, then the advisory log
ObserveResponse(w, response) ==
    LET w1 == [Log(w, "observe", response.status) EXCEPT
                  !.info = ParseRateLimitHeaders(w.info, response.rateLimit, w.t)]
    IN IF ShouldWarnAboutRateLimit(w1.info) THEN Log(w1, "warn", 0) ELSE w1

\* A 401/403 branch that clears the cache whenever the credential is refused
HandleAuthFailureAlwaysClears(w, response, draw) ==
    LET w1 == [w EXCEPT !.rejected = @ \cup {w.m.token}]
    IN IF AuthRetryAllowed(w1.m.attempt)
       THEN Continue(ClearTokenCache(w1), draw)
       ELSE Throw(ClearTokenCache(w1), AuthenticationError(response.status))

\* The 401/403 branch
HandleAuthFailure(w, response, draw) ==
    LET w1 == [w EXCEPT !.rejected = @ \cup {w.m.token}]
    IN IF AuthRetryAllowed(w1.m.attempt)
       THEN Continue(ClearTokenCache(w1), draw)
       ELSE Throw(w1, AuthenticationError(response.status))

\* A 429 branch whose error loses the Retry-After value
HandleRateLimitedNoHint(w, response, draw) ==
    IF AttemptsRemain(w.m.attempt)
    THEN Sleep(w, RateLimitDelay(RetryAfterSeconds(response.retryAfter), w.m.attempt, draw),
               NoError)
    ELSE Throw(w, RateLimitError(Undefined))

\* The 429 branch
HandleRateLimited(w, response, draw) ==
    LET retryAfterSeconds == RetryAfterSeconds(response.retryAfter)
    IN IF AttemptsRemain(w.m.attempt)
       THEN Sleep(w, RateLimitDelay(retryAfterSeconds, w.m.attempt, draw), NoError)
       ELSE Throw(w, RateLimitError(retryAfterSeconds))

\* What the retry loop reads of a response
Digest(response) == [response EXCEPT !.rateLimit = NoHeader]

\* From the resolution of fetch to the next await, return or throw
\* The response arrives: `const response = await fetch(...)` is assigned
Received(w, response) ==
    [Log(w, "response", response.status) EXCEPT
        !.m.response = response, !.m.resps = Append(@, Digest(response))]

\* Lines 173-209: the branch on the status, up to the next await
Dispatch(w1, response, draw) ==
    IF IsOk(response.status)
    THEN IF response.status = 204 THEN Return(w1, "null")
         ELSE [w1 EXCEPT !.m.pc = "parsing"]
    ELSE IF IsAuthFailure(response.status) THEN HandleAuthFailure(w1, response, draw)
    ELSE IF response.status = 429 THEN HandleRateLimited(w1, response, draw)
    ELSE [w1 EXCEPT !.m.pc = "parsingError"]

HandleResponse(w, response, draw) ==
    Dispatch(ObserveResponse(Received(w, response), response), response, draw)

\* `return (await response.json())`: the body parses or json() rejects
HandleSuccessBody(w, draw) ==
    IF w.m.response.body = "json" THEN Return(w, "payload")
    ELSE CatchOther(w, GenericError("SyntaxError"), draw)

\* Lines 210-221: classify, then retry or throw
HandleErrorBody(w, draw) ==
    LET parsed == ParseErrorResponse(w.m.response.status, w.m.response.body)
    IN IF parsed.threw THEN CatchOther(w, parsed.error, draw)
       ELSE IF parsed.error.isRetryable /\ AttemptsRemain(w.m.attempt)
       THEN Sleep(w, CalculateBackoff(w.m.attempt, DefaultBaseDelay, DefaultMaxDelay, draw),
                  parsed.error)
       ELSE Throw(w, parsed.error)

\* The timer of sleep fires: the assignment after the await, then `continue`
AfterSleep(w, draw) ==
    LET w1 == IF w.m.afterSleep # NoError
              THEN [w EXCEPT !.m.lastError = w.m.afterSleep, !.m.afterSleep = NoError]
              ELSE w
    IN Continue([w1 EXCEPT !.m.wakeAt = 0], draw)

----------------------------------------------------------------------------
(* What the remote service may answer *)

RateLimitHeaderWarn ==
    Header(KeyLim \o <<":", "3", "6", "0", "0", ";">> \o KeyRem \o <<":", "4", "5", "0", ";">>)

RateLimitHeaders == {NoHeader, RateLimitHeaderWarn}

RetryAfterHeaders == {NoHeader, Header(<<"2">>), Header(<<"0">>), Header(<<"1", "2", "0">>)}

Statuses == {200, 204, 401, 403, 404, 429, 500}

\* The bodies the retry loop tells apart, by status
BodiesOf(status) ==
    IF status = 204 \/ IsAuthFailure(status) \/ status = 429 THEN {"none"}
    ELSE IF IsOk(status) THEN {"json", "invalid"}
    ELSE {"problems", "null", "badErrors"}

\* Retry-After comes with 429 responses only
RetryAftersOf(status) == IF status = 429 THEN RetryAfterHeaders ELSE {NoHeader}

\* The responses of a service that reports its quota as the header rl
Responses(rl) ==
    UNION {{[status |-> st, retryAfter |-> ra, rateLimit |-> rl, body |-> b,
             page |-> NoPage] :
              ra \in RetryAftersOf(st), b \in BodiesOf(st)} :
           st \in Statuses}

----------------------------------------------------------------------------
(* Actions *)

Init ==
    /\ configOk \in BOOLEAN
    /\ now = 0
    /\ cachedToken = NoToken
    /\ signCount = 0
    /\ rateLimitInfo = InitialRateLimitInfo
    /\ rejected = {}
    /\ serverQuota \in RateLimitHeaders
    /\ pipe = [p \in {1} |-> Idle]
    /\ signerLog = <<>>
    /\ call = NoCall
    /\ server = NotStarted
    /\ snapshots = NoSnapshots

\* makeRequest(endpoint, options) from its first line to its first await
MakeRequest(p, method, hasBody, bodyArg) ==
    /\ pipe[p].pc = "idle"
    /\ \E draw \in JitterDraws :
         Commit(p, LoopHead([World(p) EXCEPT
                               !.m = NewActivation(method, hasBody, bodyArg)], draw))
    /\ UNCHANGED <<configOk, now, serverQuota, signerLog, call, server, snapshots>>

\* get(endpoint, params): no body
Get(p) == MakeRequest(p, "GET", FALSE, FALSE)

\* post(endpoint, body): options.body = body
Post(p) == MakeRequest(p, "POST", TRUE, TRUE)

\* patch(endpoint, body): options.body = body
Patch(p) == MakeRequest(p, "PATCH", TRUE, TRUE)

\* del(endpoint): the function takes the endpoint only and passes
\* { method: "DELETE" }, so whatever else a caller hands over (the body of
\* remove_build_from_beta_group) never reaches options.body
Del(p) == \E bodyArg \in BOOLEAN : MakeRequest(p, "DELETE", FALSE, bodyArg)

\* fetch resolves with one of the given responses
FetchResolvesWith(p, responses) ==
    /\ pipe[p].pc = "fetching"
    /\ \E response \in responses, draw \in JitterDraws :
         Commit(p, HandleResponse(World(p), response, draw))
    /\ UNCHANGED <<configOk, now, serverQuota, signerLog, call, server, snapshots>>

\* fetch resolves with a response
FetchResolves(p) == FetchResolvesWith(p, Responses(serverQuota))

\* fetch rejects: no response at all
FetchRejects(p) ==
    /\ pipe[p].pc = "fetching"
    /\ \E draw \in JitterDraws :
         Commit(p, CatchOther(Log(World(p), "reject", 0), GenericError("fetch failed"), draw))
    /\ UNCHANGED <<configOk, now, serverQuota, signerLog, call, server, snapshots>>

\* response.json() of a 2xx response settles
JsonSettles(p) ==
    /\ pipe[p].pc = "parsing"
    /\ \E draw \in JitterDraws : Commit(p, HandleSuccessBody(World(p), draw))
    /\ UNCHANGED <<configOk, now, serverQuota, signerLog, call, server, snapshots>>

\* response.json().catch(() => null) of an error response settles
ErrorJsonSettles(p) ==
    /\ pipe[p].pc = "parsingError"
    /\ \E draw \in JitterDraws : Commit(p, HandleErrorBody(World(p), draw))
    /\ UNCHANGED <<configOk, now, serverQuota, signerLog, call, server, snapshots>>

\* the timer of sleep(delay) fires, delay milliseconds after it was set
SleepResolves(p) ==
    /\ pipe[p].pc = "sleeping"
    /\ now' = IF now >= pipe[p].wakeAt THEN now ELSE pipe[p].wakeAt
    /\ \E draw \in JitterDraws :
         Commit(p, AfterSleep([World(p) EXCEPT !.t = now'], draw))
    /\ UNCHANGED <<configOk, serverQuota, signerLog, call, server, snapshots>>

Next ==
    \/ \E p \in DOMAIN pipe : Get(p)
    \/ \E p \in DOMAIN pipe : Post(p)
    \/ \E p \in DOMAIN pipe : Patch(p)
    \/ \E p \in DOMAIN pipe : Del(p)
    \/ \E p \in DOMAIN pipe : FetchResolves(p)
    \/ \E p \in DOMAIN pipe : FetchRejects(p)
    \/ \E p \in DOMAIN pipe : JsonSettles(p)
    \/ \E p \in DOMAIN pipe : ErrorJsonSettles(p)
    \/ \E p \in DOMAIN pipe : SleepResolves(p)

Spec == Init /\ [][Next]_vars

----------------------------------------------------------------------------
(* Several logical calls in flight at once: each pipeline runs its own      *)
(* makeRequest, and the runs between awaits interleave in any order.        *)

\* The answers that take the pipelines through each kind of branch
CoreResponses(rl) ==
    {r \in Responses(rl) :
        \/ r.status = 200 /\ r.body = "json"
        \/ r.status = 401
        \/ r.status = 500 /\ r.body = "problems"}

InitConcurrent ==
    /\ configOk = TRUE
    /\ now = 0
    /\ cachedToken = NoToken
    /\ signCount = 0
    /\ rateLimitInfo = InitialRateLimitInfo
    /\ rejected = {}
    /\ serverQuota \in RateLimitHeaders
    /\ pipe = [p \in {1, 2} |-> Idle]
    /\ signerLog = <<>>
    /\ call = NoCall
    /\ server = NotStarted
    /\ snapshots = NoSnapshots

FetchResolvesCore(p) == FetchResolvesWith(p, CoreResponses(serverQuota))

NextConcurrent ==
    \/ \E p \in DOMAIN pipe : Get(p)
    \/ \E p \in DOMAIN pipe : FetchResolvesCore(p)
    \/ \E p \in DOMAIN pipe : JsonSettles(p)
    \/ \E p \in DOMAIN pipe : ErrorJsonSettles(p)
    \/ \E p \in DOMAIN pipe : SleepResolves(p)

SpecConcurrent == InitConcurrent /\ [][NextConcurrent]_vars

\* A token left in the cache by earlier calls, inside the refresh margin
NearExpiryToken == [token |-> 1, expiresAt |-> REFRESH_BEFORE_SECONDS]

\* The pipelines start together on a cache that is empty or near its expiry
InitColdStart ==
    /\ configOk = TRUE
    /\ now = 0
    /\ cachedToken \in {NoToken, NearExpiryToken}
    /\ signCount = IF cachedToken = NoToken THEN 0 ELSE 1
    /\ rateLimitInfo = InitialRateLimitInfo
    /\ rejected = {}
    /\ serverQuota \in RateLimitHeaders
    /\ pipe = [p \in {1, 2} |-> Idle]
    /\ signerLog = <<>>
    /\ call = NoCall
    /\ server = NotStarted
    /\ snapshots = NoSnapshots

SpecColdStart == InitColdStart /\ [][NextConcurrent]_vars

----------------------------------------------------------------------------
(* The credential signer on its own: callers ask for tokens and invalidate  *)
(* the cache while the clock advances.                                      *)

\* The number of direct calls of the signer in one behaviour
MaxSignerCalls == 4

\* The last second at which a token signed at second 0 is served from the cache
LastCachedSecond == TOKEN_EXPIRY_SECONDS - REFRESH_BEFORE_SECONDS - 1

\* The instants Date.now() is read at, in milliseconds: seconds 0, 1079, 1080
\* and 2159, on either side of the refresh instants of tokens signed at
\* seconds 0, 1079 and 1080, each early and late in the second
ClockInstants ==
    {1000 * (k * (LastCachedSecond + 1) + j) + f : k \in {0, 1}, j \in {0, LastCachedSecond},
                                                   f \in {0, 999}}

\* One entry of signerLog
SignerCall(op, token, exp, at, signed) ==
    [op |-> op, token |-> token, exp |-> exp, at |-> at, signed |-> signed]

InitSigner ==
    /\ configOk = TRUE
    /\ now = 0
    /\ cachedToken = NoToken
    /\ signCount = 0
    /\ rateLimitInfo = InitialRateLimitInfo
    /\ rejected = {}
    /\ serverQuota = NoHeader
    /\ pipe = [p \in {1} |-> Idle]
    /\ signerLog = <<>>
    /\ call = NoCall
    /\ server = NotStarted
    /\ snapshots = NoSnapshots

\* generateToken() called by p; exp is the exp claim of the token returned
IssueToken(p) ==
    /\ Len(signerLog) < MaxSignerCalls
    /\ LET w == GenerateToken(World(p))
       IN /\ Commit(p, w)
          /\ signerLog' = Append(signerLog,
                 SignerCall("issueToken", w.ret, w.cache.expiresAt, now, w.signs > signCount))
    /\ UNCHANGED <<configOk, now, serverQuota, call, server, snapshots>>

\* clearTokenCache() called by p
Invalidate(p) ==
    /\ Len(signerLog) < MaxSignerCalls
    /\ Commit(p, ClearTokenCache(World(p)))
    /\ signerLog' = Append(signerLog, SignerCall("invalidate", 0, 0, now, FALSE))
    /\ UNCHANGED <<configOk, now, serverQuota, call, server, snapshots>>

\* Time passes between two calls
ClockAdvances ==
    /\ \E t \in ClockInstants : t > now /\ now' = t
    /\ UNCHANGED <<configOk, cachedToken, signCount, rateLimitInfo, rejected, serverQuota,
                   pipe, signerLog, call, server, snapshots>>

NextSigner ==
    \/ \E p \in DOMAIN pipe : IssueToken(p)
    \/ \E p \in DOMAIN pipe : Invalidate(p)
    \/ ClockAdvances

SpecSigner == InitSigner /\ [][NextSigner]_vars

----------------------------------------------------------------------------
(* The rate-limit tracker on its own: responses with all kinds of           *)
(* x-rate-limit headers are observed one after the other.                   *)

\* The number of responses observed in one behaviour
MaxObservations == 3

RateLimitHeaderLow ==
    Header(KeyLim \o <<":", "5", "0", "0", "0", ";">> \o KeyRem \o <<":", "9", "9", ";">>)

\* "user-hour-rem:1000;"
RateLimitHeaderRemOnly == Header(KeyRem \o <<":", "1", "0", "0", "0", ";">>)

\* "user-hour-lim:abc;": a recognized key with a value that is no integer
RateLimitHeaderBadLimit == Header(KeyLim \o <<":", "a", "b", "c", ";">>)

\* "user-hour-rem;": a recognized key with no value
RateLimitHeaderNoValue == Header(KeyRem \o <<";">>)

\* "burst:7;": a key the tracker does not know
RateLimitHeaderUnknownKey == Header(<<"b", "u", "r", "s", "t", ":", "7", ";">>)

\* "user-hour-rem:100;", "user-hour-rem:499;" and "user-hour-rem:500;": the
\* values on either side of the two thresholds (99 is in RateLimitHeaderLow)
RateLimitHeaderRem100 == Header(KeyRem \o <<":", "1", "0", "0", ";">>)

RateLimitHeaderRem499 == Header(KeyRem \o <<":", "4", "9", "9", ";">>)

RateLimitHeaderRem500 == Header(KeyRem \o <<":", "5", "0", "0", ";">>)

TrackerHeaders ==
    {NoHeader, Header(<<>>), RateLimitHeaderWarn, RateLimitHeaderLow, RateLimitHeaderRemOnly,
     RateLimitHeaderBadLimit, RateLimitHeaderNoValue, RateLimitHeaderUnknownKey,
     RateLimitHeaderRem100, RateLimitHeaderRem499, RateLimitHeaderRem500}

InitTracker ==
    /\ configOk = TRUE
    /\ now = 0
    /\ cachedToken = NoToken
    /\ signCount = 0
    /\ rateLimitInfo = InitialRateLimitInfo
    /\ rejected = {}
    /\ serverQuota = NoHeader
    /\ pipe = [p \in {1} |-> Idle]
    /\ signerLog = <<>>
    /\ call = NoCall
    /\ server = NotStarted
    /\ snapshots = NoSnapshots

\* Lines 162-171 of makeRequest on a response that carries the header h
Observe(p) ==
    /\ Len(pipe[p].resps) < MaxObservations
    /\ \E h \in TrackerHeaders :
         LET response == [NoResponse EXCEPT !.status = 200, !.rateLimit = h]
             w == [World(p) EXCEPT !.m.response = response,
                                   !.m.resps = Append(@, Digest(response))]
         IN Commit(p, ObserveResponse(w, response))
    /\ UNCHANGED <<configOk, now, serverQuota, signerLog, call, server, snapshots>>

NextTracker ==
    \/ \E p \in DOMAIN pipe : Observe(p)
    \/ ClockAdvances

SpecTracker == InitTracker /\ [][NextTracker]_vars

----------------------------------------------------------------------------
(* Concurrent pipelines against a service whose quota header changes from   *)
(* one response to the next.                                                *)

QuotaHeaders == {NoHeader, RateLimitHeaderWarn, RateLimitHeaderLow}

\* A success and a failure that ends the call
PlainResponses(rl) ==
    {r \in Responses(rl) :
        \/ r.status = 200 /\ r.body = "json"
        \/ r.status = 404 /\ r.body = "problems"}

FetchResolvesPlain(p) == FetchResolvesWith(p, PlainResponses(serverQuota))

\* The service starts to report another quota
QuotaChanges ==
    /\ \E h \in QuotaHeaders : h # serverQuota /\ serverQuota' = h
    /\ UNCHANGED <<configOk, now, cachedToken, signCount, rateLimitInfo, rejected, pipe,
                   signerLog, call, server, snapshots>>

NextObservers ==
    \/ \E p \in DOMAIN pipe : Get(p)
    \/ \E p \in DOMAIN pipe : FetchResolvesPlain(p)
    \/ \E p \in DOMAIN pipe : JsonSettles(p)
    \/ \E p \in DOMAIN pipe : ErrorJsonSettles(p)
    \/ QuotaChanges

SpecObservers == InitConcurrent /\ [][NextObservers]_vars

----------------------------------------------------------------------------
(* The backoff calculator and the error classifier called on their own,     *)
(* with arguments of every kind.                                            *)

\* The largest attempt index calculateBackoff is called with
MaxAttemptIndex == 8

AttemptIndices == 0..MaxAttemptIndex

BaseDelays == {500, 1000}

MaxDelays == {2000, 60000}

\* Math.random(), in thousandths
BackoffDraws == {0, 500, 996, 999}

BackoffCalls ==
    {[fn |-> "calculateBackoff",
      args |-> [attempt |-> n, baseDelay |-> b, maxDelay |-> mx, draw |-> d],
      returned |-> FALSE, result |-> 0] :
        n \in AttemptIndices, b \in BaseDelays, mx \in MaxDelays, d \in BackoffDraws}

\* The statuses of the responses that reach parseErrorResponse
ErrorStatuses == 400..599

\* The shapes of a parsed body: {errors: [...]}, a string, null, {errors: null}
ErrorBodies == {"problems", "string", "null", "badErrors"}

ClassifierCalls ==
    {[fn |-> "parseErrorResponse", args |-> [status |-> st, body |-> b],
      returned |-> FALSE, result |-> 0] :
        st \in ErrorStatuses, b \in ErrorBodies}

InitUtils ==
    /\ configOk = TRUE
    /\ now = 0
    /\ cachedToken = NoToken
    /\ signCount = 0
    /\ rateLimitInfo = InitialRateLimitInfo
    /\ rejected = {}
    /\ serverQuota = NoHeader
    /\ pipe = [p \in {1} |-> Idle]
    /\ signerLog = <<>>
    /\ \/ call \in BackoffCalls
       \/ call \in ClassifierCalls
    /\ server = NotStarted
    /\ snapshots = NoSnapshots

CalculateBackoffReturns ==
    /\ call.fn = "calculateBackoff" /\ ~call.returned
    /\ call' = [call EXCEPT
                  !.returned = TRUE,
                  !.result = CalculateBackoff(call.args.attempt, call.args.baseDelay,
                                              call.args.maxDelay, call.args.draw)]
    /\ UNCHANGED <<configOk, now, cachedToken, signCount, rateLimitInfo, rejected, serverQuota,
                   pipe, signerLog, server, snapshots>>

ParseErrorResponseReturns ==
    /\ call.fn = "parseErrorResponse" /\ ~call.returned
    /\ call' = [call EXCEPT
                  !.returned = TRUE,
                  !.result = ParseErrorResponse(call.args.status, call.args.body)]
    /\ UNCHANGED <<configOk, now, cachedToken, signCount, rateLimitInfo, rejected, serverQuota,
                   pipe, signerLog, server, snapshots>>

NextUtils ==
    \/ CalculateBackoffReturns
    \/ ParseErrorResponseReturns

SpecUtils == InitUtils /\ [][NextUtils]_vars

----------------------------------------------------------------------------
(* client/api-client.ts: getAllPages, the page follower.  It has its own    *)
(* loop around fetch, with no try/catch: whatever is thrown ends the call.  *)

\* buildUrl(endpoint, params)
FirstUrl == "first"

\* A collection that keeps the newest page in front
AccumulatePrepending(allData, data) == data \o allData

\* allData.push(...data.data)
Accumulate(allData, data) == allData \o data

\* data.links?.next || null
NextUrlOf(page) == IF page.next \in {"absent", ""} THEN NoUrl ELSE page.next

\* `while (nextUrl)`: the test, then the body up to `await fetch`, or the
\* return that follows the loop
PageLoopHead(w) ==
    IF w.m.nextUrl = NoUrl THEN Return(w, "allData")
    ELSE LET g == GenerateToken(w)
         IN IF g.threw THEN Throw([g EXCEPT !.threw = FALSE], GenericError("config"))
            ELSE [Log(g, "fetch", w.m.nextUrl) EXCEPT
                    !.m.pc = "pageFetching", !.m.token = g.ret, !.m.response = NoResponse]

\* The page response arrives: the tracker is fed, then response.ok decides
\* which json() is awaited
HandlePageResponse(w, response) ==
    LET w0 == Received(w, response)
        w1 == [Log(w0, "observe", response.status) EXCEPT
                  !.info = ParseRateLimitHeaders(w0.info, response.rateLimit, w0.t)]
    IN [w1 EXCEPT !.m.pc = IF IsOk(response.status) THEN "pageParsing"
                           ELSE "pageParsingError"]

\* `const data = await response.json()` settles: the page is added and the
\* loop goes on, or json() rejects and the rejection leaves getAllPages
HandlePageBody(w) ==
    IF w.m.response.body = "json"
    THEN PageLoopHead([w EXCEPT
                          !.m.allData = Accumulate(@, w.m.response.page.data),
                          !.m.nextUrl = NextUrlOf(w.m.response.page)])
    ELSE Throw(w, GenericError("SyntaxError"))

\* `throw parseErrorResponse(response.status, errorBody)`
HandlePageErrorBody(w) ==
    Throw(w, ParseErrorResponse(w.m.response.status, w.m.response.body).error)

\* The data arrays and next links a page may carry
PageData == {<<>>, <<"a">>, <<"b", "c">>}

NextLinks == {"absent", "", "page2", "page3"}

\* The statuses a page request is answered with
PageStatuses == {200, 401, 404, 429, 500}

\* A collection has at most MaxPages pages: the last one carries no next link
MaxPages == 3

\* The answers to a page request; more tells whether further pages exist
PageResponses(rl, more) ==
    {[status |-> 200, retryAfter |-> NoHeader, rateLimit |-> rl, body |-> "json",
      page |-> [data |-> d, next |-> n]] :
        d \in PageData, n \in IF more THEN NextLinks ELSE {"absent", ""}}
    \cup {[status |-> 200, retryAfter |-> NoHeader, rateLimit |-> rl, body |-> "invalid",
            page |-> NoPage]}
    \cup UNION {{[status |-> st, retryAfter |-> ra, rateLimit |-> rl, body |-> b,
                  page |-> NoPage] :
                    ra \in RetryAftersOf(st), b \in {"problems", "null", "badErrors"}} :
                 st \in PageStatuses \ {200}}

\* getAllPages(endpoint, params) from its first line to its first await
GetAllPages(p) ==
    /\ pipe[p].pc = "idle"
    /\ Commit(p, PageLoopHead([World(p) EXCEPT
                                 !.m = [NewActivation("GET", FALSE, FALSE) EXCEPT
                                           !.nextUrl = FirstUrl]]))
    /\ UNCHANGED <<configOk, now, serverQuota, signerLog, call, server, snapshots>>

\* fetch of a page resolves with a response
PageResolves(p) ==
    /\ pipe[p].pc = "pageFetching"
    /\ \E response \in PageResponses(serverQuota, Len(pipe[p].resps) + 1 < MaxPages) :
         Commit(p, HandlePageResponse(World(p), response))
    /\ UNCHANGED <<configOk, now, serverQuota, signerLog, call, server, snapshots>>

\* fetch of a page rejects: the rejection leaves getAllPages
PageRejects(p) ==
    /\ pipe[p].pc = "pageFetching"
    /\ Commit(p, Throw(Log(World(p), "reject", 0), GenericError("fetch failed")))
    /\ UNCHANGED <<configOk, now, serverQuota, signerLog, call, server, snapshots>>

\* response.json() of a 2xx page settles
PageJsonSettles(p) ==
    /\ pipe[p].pc = "pageParsing"
    /\ Commit(p, HandlePageBody(World(p)))
    /\ UNCHANGED <<configOk, now, serverQuota, signerLog, call, server, snapshots>>

\* response.json().catch(() => null) of a failed page settles
PageErrorJsonSettles(p) ==
    /\ pipe[p].pc = "pageParsingError"
    /\ Commit(p, HandlePageErrorBody(World(p)))
    /\ UNCHANGED <<configOk, now, serverQuota, signerLog, call, server, snapshots>>

NextPager ==
    \/ \E p \in DOMAIN pipe : GetAllPages(p)
    \/ \E p \in DOMAIN pipe : PageResolves(p)
    \/ \E p \in DOMAIN pipe : PageRejects(p)
    \/ \E p \in DOMAIN pipe : PageJsonSettles(p)
    \/ \E p \in DOMAIN pipe : PageErrorJsonSettles(p)

SpecPager == Init /\ [][NextPager]_vars

----------------------------------------------------------------------------
(* index.ts: main(), and the tool handlers registered through wrapHandler. *)
(* A tool handler awaits one operation of the pipeline and builds its      *)
(* result from what that returns.                                          *)

\* A text, by its parts: the wording in front, a status, the message or the
\* problem list, and the seconds of a "Retry after" note (undefined: no note)
Text(head, status, detail, retryAfter) ==
    [head |-> head, status |-> status, detail |-> detail, retryAfter |-> retryAfter]

\* formatErrorForMcp(error)
FormatErrorForMcp(error) ==
    IF error.type = "AppStoreConnectError"
    THEN Text("App Store Connect API Error", error.status, error.detail, Undefined)
    ELSE IF error.type = "AuthenticationError"
    THEN Text("Authentication Error", 0, error.detail, Undefined)
    ELSE IF error.type = "RateLimitError"
    THEN Text("", 0, error.detail,
              IF Truthy(error.retryAfter) THEN error.retryAfter ELSE Undefined)
    ELSE IF error.type = "Error"
    THEN Text("Error", 0, error.detail, Undefined)
    ELSE Text("Unknown error", 0, error.detail, Undefined)

\* The content a tool handler builds from what the pipeline returned
ResultOf(data) == Text("result", 0, data, Undefined)

\* A wrapper that answers with the text but does not flag it
WrapHandlerUnflagged(settled) ==
    IF settled.kind = "error"
    THEN [content |-> FormatErrorForMcp(settled.error), isError |-> FALSE, thrown |-> FALSE]
    ELSE [content |-> ResultOf(settled.data), isError |-> FALSE, thrown |-> FALSE]

\* wrapHandler(handler)(input), once handler(input) has settled
WrapHandler(settled) ==
    IF settled.kind = "error"
    THEN [content |-> FormatErrorForMcp(settled.error), isError |-> TRUE, thrown |-> FALSE]
    ELSE [content |-> ResultOf(settled.data), isError |-> FALSE, thrown |-> FALSE]

\* A start that registers before it validates
MainRegistersFirst(ok) ==
    IF ok
    THEN [NotStarted EXCEPT !.phase = "connecting", !.validated = TRUE, !.tools = TRUE,
                            !.resources = TRUE, !.transport = TRUE]
    ELSE [NotStarted EXCEPT !.phase = "exited", !.exitCode = 1, !.validated = TRUE,
                            !.tools = TRUE, !.resources = TRUE]

\* main() up to `await server.connect(transport)`, or up to process.exit(1)
MainRun(ok) ==
    IF ok
    THEN [NotStarted EXCEPT !.phase = "connecting", !.validated = TRUE, !.tools = TRUE,
                            !.resources = TRUE, !.transport = TRUE]
    ELSE [NotStarted EXCEPT !.phase = "exited", !.exitCode = 1, !.validated = TRUE]

\* The transport is started: tool calls can come in
Accepting == server.phase \in {"connecting", "serving"} /\ server.transport

Main ==
    /\ server.phase = "loaded"
    /\ server' = MainRun(configOk)
    /\ UNCHANGED <<configOk, now, cachedToken, signCount, rateLimitInfo, rejected,
                   serverQuota, pipe, signerLog, call, snapshots>>

\* server.connect(transport) resolves: main() logs that it runs and ends
ConnectResolves ==
    /\ server.phase = "connecting"
    /\ server' = [server EXCEPT !.phase = "serving"]
    /\ UNCHANGED <<configOk, now, cachedToken, signCount, rateLimitInfo, rejected,
                   serverQuota, pipe, signerLog, call, snapshots>>

\* server.connect(transport) rejects: main().catch exits the process
ConnectRejects ==
    /\ server.phase = "connecting"
    /\ server' = [server EXCEPT !.phase = "exited", !.exitCode = 1]
    /\ UNCHANGED <<configOk, now, cachedToken, signCount, rateLimitInfo, rejected,
                   serverQuota, pipe, signerLog, call, snapshots>>

\* A tool whose handler awaits get(...) is called
ToolCallsGet(p) == Accepting /\ Get(p)

\* A tool whose handler awaits post(...) is called
ToolCallsPost(p) == Accepting /\ Post(p)

\* A tool whose handler awaits patch(...) is called
ToolCallsPatch(p) == Accepting /\ Patch(p)

\* A tool whose handler awaits del(...) is called
ToolCallsDel(p) == Accepting /\ Del(p)

\* The operation the handler awaits has settled: the handler returns its
\* result, or throws (the error of the pipeline, or one of its own while it
\* builds the result), and the wrapper answers
ToolCallSettles(p) ==
    /\ Accepting
    /\ pipe[p].pc = "done"
    /\ p \notin DOMAIN server.handled
    /\ \E handlerThrows \in BOOLEAN :
         LET settled == IF pipe[p].outcome.kind = "ok" /\ handlerThrows
                        THEN [kind |-> "error", data |-> "none",
                              error |-> GenericError("TypeError")]
                        ELSE pipe[p].outcome
         IN server' = [server EXCEPT
                          !.handled = (p :> [settled |-> settled,
                                             answer |-> WrapHandler(settled)]) @@ @]
    /\ UNCHANGED <<configOk, now, cachedToken, signCount, rateLimitInfo, rejected,
                   serverQuota, pipe, signerLog, call, snapshots>>

NextServer ==
    \/ Main
    \/ ConnectResolves
    \/ ConnectRejects
    \/ \E p \in DOMAIN pipe : ToolCallsGet(p)
    \/ \E p \in DOMAIN pipe : ToolCallsPost(p)
    \/ \E p \in DOMAIN pipe : ToolCallsPatch(p)
    \/ \E p \in DOMAIN pipe : ToolCallsDel(p)
    \/ \E p \in DOMAIN pipe : Accepting /\ FetchResolves(p)
    \/ \E p \in DOMAIN pipe : Accepting /\ FetchRejects(p)
    \/ \E p \in DOMAIN pipe : Accepting /\ JsonSettles(p)
    \/ \E p \in DOMAIN pipe : Accepting /\ ErrorJsonSettles(p)
    \/ \E p \in DOMAIN pipe : Accepting /\ SleepResolves(p)
    \/ \E p \in DOMAIN pipe : ToolCallSettles(p)

SpecServer == Init /\ [][NextServer]_vars

----------------------------------------------------------------------------
(* getRateLimitStatus() and what callers do with the object it returns.    *)
(* An object a caller holds is either the tracker's own object (live) or   *)
(* an object of its own with the fields in obj.                            *)

\* A status call that hands out the tracker's own object
GetRateLimitStatusLive(info) == [live |-> TRUE, obj |-> info]

\* return { ...rateLimitInfo }: a new object with the three fields copied
GetRateLimitStatus(info) == [live |-> FALSE, obj |-> info]

\* What reading the fields of a held object gives
Deref(held, info) == IF held.live THEN info ELSE held.obj

MaxSnapshots == 2

\* The fields of the object, and the value a caller assigns to each
SnapshotFields == {"hourlyLimit", "hourlyRemaining", "lastUpdated"}

WrittenValue(field) == IF field = "lastUpdated" THEN 1 ELSE Num(0)

\* object[field] = value
Assign(object, field, value) == [object EXCEPT ![field] = value]

\* A response with one of the quota headers is observed
ObserveQuota(p) ==
    /\ Len(pipe[p].resps) < MaxObservations
    /\ \E h \in QuotaHeaders :
         LET response == [NoResponse EXCEPT !.status = 200, !.rateLimit = h]
             w == [World(p) EXCEPT !.m.response = response,
                                   !.m.resps = Append(@, Digest(response))]
         IN Commit(p, ObserveResponse(w, response))
    /\ snapshots' = [snapshots EXCEPT !.op = "observe", !.target = 0]
    /\ UNCHANGED <<configOk, now, serverQuota, signerLog, call, server>>

\* A caller calls getRateLimitStatus() and keeps the result
TakeSnapshot ==
    /\ Len(snapshots.held) < MaxSnapshots
    /\ snapshots' = [held |-> Append(snapshots.held, GetRateLimitStatus(rateLimitInfo)),
                     op |-> "take", target |-> Len(snapshots.held) + 1]
    /\ UNCHANGED <<configOk, now, cachedToken, signCount, rateLimitInfo, rejected,
                   serverQuota, pipe, signerLog, call, server>>

\* A caller assigns to a field of a result it holds
WriteSnapshot ==
    \E i \in 1..Len(snapshots.held), field \in SnapshotFields :
        LET held == snapshots.held[i]
            wr == [field |-> field, value |-> WrittenValue(field)]
        IN
        /\ snapshots' =
              [held |-> IF held.live THEN snapshots.held
                        ELSE [snapshots.held EXCEPT
                                 ![i].obj = Assign(@, wr.field, wr.value)],
               op |-> "write", target |-> i]
        /\ rateLimitInfo' = IF held.live THEN Assign(rateLimitInfo, wr.field, wr.value)
                            ELSE rateLimitInfo
        /\ UNCHANGED <<configOk, now, cachedToken, signCount, rejected, serverQuota, pipe,
                       signerLog, call, server>>

NextSnapshots ==
    \/ \E p \in DOMAIN pipe : ObserveQuota(p)
    \/ TakeSnapshot
    \/ WriteSnapshot

SpecSnapshots == InitTracker /\ [][NextSnapshots]_vars

----------------------------------------------------------------------------
(* Reading the record of a logical call *)

Positions(log, k) == {i \in 1..Len(log) : log[i].k = k}

Count(log, k) == Cardinality(Positions(log, k))

IsSleep(e) == e.k = "sleep"

\* The delays of the sleeps of a call, in order
SleepsOf(m) == [i \in 1..Len(SelectSeq(m.log, IsSleep)) |-> SelectSeq(m.log, IsSleep)[i].x]

\* The events after position i that are no signature, tracker update or
\* advisory log: the sleeps, invalidations, requests and answers that followed
IsStep(e) == e.k \notin {"sign", "observe", "warn"}

StepsAfter(log, i) == SelectSeq(SubSeq(log, i + 1, Len(log)), IsStep)

\* computeDelay(n, 1000, 60000) for n < 6: the exponential term plus a jitter
\* of less than a quarter of it
IsComputeDelay(delay, n) == delay >= 1000 * Pow2(n) /\ 4 * delay < 5000 * Pow2(n)

Done(m) == m.pc = "done"

----------------------------------------------------------------------------
(* C1: a logical call issues at most 3 HTTP requests, on attempts 0, 1 and  *)
(* 2, and once the third has been answered the call has ended with a       *)
(* result or an error: it neither sleeps nor issues a fourth request.      *)

AtMostThreeRequests ==
    \A p \in DOMAIN pipe :
        LET m == pipe[p] IN
        /\ Count(m.log, "request") <= 3
        /\ \A i \in Positions(m.log, "request") : m.log[i].n \in {0, 1, 2}
        /\ Count(m.log, "request") = 3 =>
              m.pc \in {"fetching", "parsing", "parsingError", "done"}
        /\ Done(m) => m.outcome.kind \in {"ok", "error"}

ThreeRequestsMade ==
    \E p \in DOMAIN pipe : Done(pipe[p]) /\ Count(pipe[p].log, "request") = 3

----------------------------------------------------------------------------
(* C2: a call whose every attempt is answered with 401 or 403 ends with an  *)
(* AuthenticationError after exactly 2 HTTP requests and without a sleep.   *)

AllAnswersAuthFailures(m) ==
    /\ Len(m.resps) >= 1
    /\ \A i \in 1..Len(m.resps) : m.resps[i].status \in {401, 403}
    /\ Count(m.log, "reject") = 0

AuthFailuresEndAfterTwoRequests ==
    \A p \in DOMAIN pipe :
        LET m == pipe[p] IN
        AllAnswersAuthFailures(m) =>
            /\ Count(m.log, "request") <= 2
            /\ Count(m.log, "sleep") = 0
            /\ m.pc \in {"fetching", "done"}
            /\ Done(m) =>
                  /\ Count(m.log, "request") = 2
                  /\ m.outcome.kind = "error"
                  /\ m.outcome.error.type = "AuthenticationError"

AuthFailuresEnded ==
    \E p \in DOMAIN pipe :
        /\ Done(pipe[p])
        /\ AllAnswersAuthFailures(pipe[p])
        /\ pipe[p].resps[1].status = 401
        /\ pipe[p].resps[2].status = 403

----------------------------------------------------------------------------
(* C3: a call answered with 401 on attempt 0 and with 200 and a well-formed *)
(* body on attempt 1 returns the payload, has invalidated the credential    *)
(* cache exactly once, sent a newly signed token on attempt 1, and has not  *)
(* slept.                                                                   *)

OkResponse(r) == r.status = 200 /\ r.body = "json"

ReauthThenSuccess(m) ==
    /\ Len(m.resps) = 2
    /\ m.resps[1].status = 401
    /\ OkResponse(m.resps[2])
    /\ Count(m.log, "reject") = 0
    /\ Done(m)

ReauthReturnsPayloadWithoutSleep ==
    \A p \in DOMAIN pipe :
        LET m == pipe[p] IN
        ReauthThenSuccess(m) =>
            /\ m.outcome = [kind |-> "ok", data |-> "payload", error |-> NoError]
            /\ Count(m.log, "invalidate") = 1
            /\ Count(m.log, "sleep") = 0
            /\ Count(m.log, "request") = 2
            /\ \A i, j \in Positions(m.log, "request") : i < j => m.log[i].x # m.log[j].x

ReauthSucceeded == \E p \in DOMAIN pipe : ReauthThenSuccess(pipe[p])

----------------------------------------------------------------------------
(* C5: a call answered with 429 and Retry-After: 2 on attempts 0 and 1 and  *)
(* with 200 on attempt 2 returns the payload after exactly two sleeps of    *)
(* 2000 ms each.                                                            *)

Is429WithRetryAfter2(r) == r.status = 429 /\ r.retryAfter = Header(<<"2">>)

TwoRateLimitsThenSuccess(m) ==
    /\ Len(m.resps) = 3
    /\ Is429WithRetryAfter2(m.resps[1])
    /\ Is429WithRetryAfter2(m.resps[2])
    /\ OkResponse(m.resps[3])
    /\ Count(m.log, "reject") = 0
    /\ Done(m)

RetryAfterIsSleptTwice ==
    \A p \in DOMAIN pipe :
        LET m == pipe[p] IN
        TwoRateLimitsThenSuccess(m) =>
            /\ m.outcome = [kind |-> "ok", data |-> "payload", error |-> NoError]
            /\ SleepsOf(m) = <<2000, 2000>>
            /\ Count(m.log, "request") = 3

RateLimitedTwiceThenSucceeded == \E p \in DOMAIN pipe : TwoRateLimitsThenSuccess(pipe[p])

----------------------------------------------------------------------------
(* C6: when attempt 2 is answered with 429 the call ends with a            *)
(* RateLimitError that carries the Retry-After value of that response, or   *)
(* no value when the header is absent, and nothing is slept after it.       *)

\* The retry-after a 429 response states: integer seconds, or none
StatedRetryAfter(r) == IF r.retryAfter.present THEN ParseInt(r.retryAfter.s) ELSE Undefined

FinalAttemptRateLimited(m) ==
    /\ m.attempt = 2
    /\ Len(m.resps) >= 1
    /\ m.resps[Len(m.resps)].status = 429
    /\ \E i \in Positions(m.log, "response") : m.log[i].n = 2

ExhaustedRateLimitCarriesRetryAfter ==
    \A p \in DOMAIN pipe :
        LET m == pipe[p] IN
        FinalAttemptRateLimited(m) =>
            /\ Done(m)
            /\ m.outcome.kind = "error"
            /\ m.outcome.error.type = "RateLimitError"
            /\ m.outcome.error.retryAfter = StatedRetryAfter(m.resps[Len(m.resps)])
            /\ \A i \in Positions(m.log, "sleep") : m.log[i].n < 2

RateLimitExhaustedWithHint ==
    \E p \in DOMAIN pipe :
        /\ FinalAttemptRateLimited(pipe[p])
        /\ pipe[p].outcome.error.retryAfter = Num(120)

----------------------------------------------------------------------------
(* C7: a response with a 4xx status other than 401, 403 and 429 is never    *)
(* retried: the call ends at once with a Service Error that carries the     *)
(* status and isRetryable = false; no sleep and no request follow it.       *)

IsClientError(status) ==
    status >= 400 /\ status <= 499 /\ status \notin {401, 403, 429}

ClientErrorIsNeverRetried ==
    \A p \in DOMAIN pipe :
        LET m == pipe[p] IN
        \A i \in Positions(m.log, "response") :
            IsClientError(m.log[i].x) =>
                /\ StepsAfter(m.log, i) = <<>>
                /\ m.pc \in {"parsingError", "done"}
                /\ Done(m) =>
                      /\ m.outcome.kind = "error"
                      /\ m.outcome.error.type = "AppStoreConnectError"
                      /\ m.outcome.error.status = m.log[i].x
                      /\ m.outcome.error.isRetryable = FALSE

----------------------------------------------------------------------------
(* C8: a 5xx response on attempt n < 2 is followed by a sleep of            *)
(* computeDelay(n) and then by attempt n + 1; a 5xx response on attempt 2   *)
(* ends the call with the classified Service Error; three 5xx responses     *)
(* make 3 requests, 2 sleeps and a Service Error.                           *)

IsServerError(status) == status >= 500 /\ status <= 599

ServerErrorIsRetriedThenRaised ==
    \A p \in DOMAIN pipe :
        LET m == pipe[p] IN
        \A i \in Positions(m.log, "response") :
            LET n == m.log[i].n
                steps == StepsAfter(m.log, i)
            IN IsServerError(m.log[i].x) =>
                  /\ n < 2 =>
                        /\ Len(steps) = 0 => m.pc = "parsingError"
                        /\ Len(steps) >= 1 =>
                              steps[1].k = "sleep" /\ IsComputeDelay(steps[1].x, n)
                        /\ Len(steps) >= 2 =>
                              steps[2].k = "request" /\ steps[2].n = n + 1
                  /\ n = 2 =>
                        /\ steps = <<>>
                        /\ m.pc \in {"parsingError", "done"}
                        /\ Done(m) =>
                              /\ m.outcome.kind = "error"
                              /\ m.outcome.error.type = "AppStoreConnectError"
                              /\ m.outcome.error.status = m.log[i].x
                              /\ Count(m.log, "request") = 3

----------------------------------------------------------------------------
(* C9: a transport failure on attempt n < 2 is followed by a sleep of       *)
(* computeDelay(n) and then by attempt n + 1; a transport failure on        *)
(* attempt 2 ends the call with the generic error of that failure; three    *)
(* transport failures make 3 requests, 2 sleeps and a generic error.        *)

TransportFailureIsRetriedThenRaised ==
    \A p \in DOMAIN pipe :
        LET m == pipe[p] IN
        /\ \A i \in Positions(m.log, "reject") :
              LET n == m.log[i].n
                  steps == StepsAfter(m.log, i)
              IN /\ n < 2 =>
                       /\ Len(steps) >= 1
                       /\ steps[1].k = "sleep" /\ IsComputeDelay(steps[1].x, n)
                       /\ Len(steps) = 1 => m.pc = "sleeping"
                       /\ Len(steps) >= 2 =>
                             steps[2].k = "request" /\ steps[2].n = n + 1
                 /\ n = 2 =>
                       /\ steps = <<>>
                       /\ Done(m)
                       /\ m.outcome =
                             [kind |-> "error", data |-> "none",
                              error |-> GenericError("fetch failed")]
        /\ Count(m.log, "reject") = 3 =>
              Count(m.log, "request") = 3 /\ Count(m.log, "sleep") = 2

ThreeTransportFailures ==
    \E p \in DOMAIN pipe : Done(pipe[p]) /\ Count(pipe[p].log, "reject") = 3

----------------------------------------------------------------------------
(* C10: every response received, whatever its status, is passed to the      *)
(* tracker exactly once and before anything else is done with it: in the    *)
(* record of a call each response is followed at once by its observation,   *)
(* there are as many observations as responses, and the tracker holds what  *)
(* the header of the response said.                                         *)

TrackerSeesEveryResponse ==
    \A p \in DOMAIN pipe :
        LET m == pipe[p] IN
        /\ Count(m.log, "observe") = Count(m.log, "response")
        /\ Len(m.resps) = Count(m.log, "response")
        /\ \A i \in Positions(m.log, "response") :
              /\ i + 1 <= Len(m.log)
              /\ m.log[i + 1] = Ev("observe", m.log[i].x, m.log[i].n)
        /\ (Len(m.resps) >= 1 /\ serverQuota = RateLimitHeaderWarn) =>
              /\ rateLimitInfo.hourlyLimit = Num(3600)
              /\ rateLimitInfo.hourlyRemaining = Num(450)

FailedAttemptsObserved ==
    \E p \in DOMAIN pipe :
        /\ Done(pipe[p])
        /\ pipe[p].outcome.kind = "error"
        /\ Count(pipe[p].log, "observe") = 3
        /\ serverQuota = RateLimitHeaderWarn
        /\ \A i \in 1..Len(pipe[p].resps) : ~IsOk(pipe[p].resps[i].status)

----------------------------------------------------------------------------
(* C4: a token the remote service has answered with 401 or 403 is never     *)
(* sent again: no request issued after the rejection, by the same logical   *)
(* call or by a later one, carries it.                                      *)

RequestIssued(p) == Count(pipe'[p].log, "request") > Count(pipe[p].log, "request")

RejectedTokenNeverSentAgain ==
    [][\A p \in DOMAIN pipe : RequestIssued(p) => pipe'[p].token \notin rejected']_vars

----------------------------------------------------------------------------
(* C11: once an attempt of a logical call has received a 2xx response the   *)
(* call ends in success: it returns a result (null data for 204) and        *)
(* neither sleeps nor issues another HTTP request.                          *)

SuccessResponseEndsCall ==
    \A p \in DOMAIN pipe :
        LET m == pipe[p] IN
        \A i \in Positions(m.log, "response") :
            IsOk(m.log[i].x) =>
                /\ StepsAfter(m.log, i) = <<>>
                /\ m.pc \in {"parsing", "done"}
                /\ Done(m) =>
                      /\ m.outcome.kind = "ok"
                      /\ m.log[i].x = 204 => m.outcome.data = "null"

----------------------------------------------------------------------------
(* C12: with the signing configuration absent a call fails with the         *)
(* configuration error at its first request for a credential: nothing is    *)
(* signed, no HTTP request is issued, nothing is slept and no second        *)
(* attempt is made.                                                         *)

MissingConfigFailsFast ==
    \A p \in DOMAIN pipe :
        LET m == pipe[p] IN
        (~configOk /\ m.pc # "idle") =>
            /\ Count(m.log, "sign") = 0
            /\ Count(m.log, "request") = 0
            /\ Count(m.log, "sleep") = 0
            /\ m.attempt = 0
            /\ Done(m)
            /\ m.outcome = [kind |-> "error", data |-> "none", error |-> GenericError("config")]

----------------------------------------------------------------------------
(* C13: every token generateToken returns has, at the instant it is         *)
(* returned, at least the 120-second refresh margin left before its expiry; *)
(* a token signed for the call expires 1200 seconds after it.               *)

MarginLeft(entry) == 1000 * entry.exp - entry.at

IssuedTokenHasRefreshMargin ==
    \A i \in 1..Len(signerLog) :
        LET entry == signerLog[i] IN
        entry.op = "issueToken" =>
            /\ MarginLeft(entry) >= 1000 * REFRESH_BEFORE_SECONDS
            /\ entry.signed => entry.exp = NowSeconds(entry.at) + TOKEN_EXPIRY_SECONDS

\* A token served from the cache within a second of the margin, and the call
\* after it, one second later, served with a newly signed one
RegeneratedAtTheMargin ==
    \E i \in 1..Len(signerLog) :
        /\ i + 1 <= Len(signerLog)
        /\ signerLog[i].op = "issueToken" /\ ~signerLog[i].signed
        /\ MarginLeft(signerLog[i]) < 1000 * (REFRESH_BEFORE_SECONDS + 1)
        /\ signerLog[i + 1].op = "issueToken" /\ signerLog[i + 1].signed
        /\ signerLog[i + 1].token # signerLog[i].token

----------------------------------------------------------------------------
(* C14: generateToken calls made while the cached token has more than the   *)
(* refresh margin left, with no clearTokenCache in between, return the same *)
(* token and sign once; the first generateToken after a clearTokenCache     *)
(* signs a new token.                                                       *)

NoInvalidateBetween(i, j) == \A k \in i..j : signerLog[k].op # "invalidate"

\* The number of signatures made by the calls up to the i-th
SignedUpTo(i) == Cardinality({k \in 1..i : signerLog[k].signed})

CachedTokenIsReturnedUnsigned ==
    /\ \A i, j \in 1..Len(signerLog) :
          (/\ i < j
           /\ signerLog[i].op = "issueToken" /\ signerLog[j].op = "issueToken"
           /\ NoInvalidateBetween(i, j)
           /\ signerLog[i].exp - NowSeconds(signerLog[j].at) > REFRESH_BEFORE_SECONDS) =>
              /\ signerLog[j].token = signerLog[i].token
              /\ SignedUpTo(j) = SignedUpTo(i)
    /\ \A j \in 2..Len(signerLog) :
          (signerLog[j].op = "issueToken" /\ signerLog[j - 1].op = "invalidate") =>
              /\ signerLog[j].signed
              /\ \A i \in 1..(j - 1) : signerLog[i].token # signerLog[j].token
    /\ signCount = SignedUpTo(Len(signerLog))

\* Two calls served by one signature, then an invalidation and a new token
CachedThenInvalidatedThenSigned ==
    /\ Len(signerLog) = 4
    /\ signerLog[1].op = "issueToken" /\ signerLog[2].op = "issueToken"
    /\ signerLog[2].at > signerLog[1].at
    /\ signerLog[2].token = signerLog[1].token
    /\ signerLog[3].op = "invalidate"
    /\ signerLog[4].op = "issueToken" /\ signerLog[4].signed
    /\ signCount = 2

----------------------------------------------------------------------------
(* C15: observing a response whose rate-limit header is absent or empty     *)
(* leaves hourlyLimit, hourlyRemaining and lastUpdated as they were.        *)

\* The step is an observation by p; the header observed is then
\* pipe'[p].response.rateLimit
Observed(p) == Count(pipe'[p].log, "observe") > Count(pipe[p].log, "observe")

AbsentHeaderLeavesTrackerUntouched ==
    [][\A p \in DOMAIN pipe :
          (Observed(p) /\ pipe'[p].response.rateLimit \in {NoHeader, Header(<<>>)}) =>
              rateLimitInfo' = rateLimitInfo]_vars

\* A response without the header has been observed by a tracker that holds
\* values of an earlier response, at a later instant
AbsentHeaderObservedLater ==
    \E p \in DOMAIN pipe :
        /\ pipe[p].response.status = 200
        /\ pipe[p].response.rateLimit = NoHeader
        /\ rateLimitInfo.hourlyLimit = Num(5000)
        /\ rateLimitInfo.hourlyRemaining = Num(99)
        /\ rateLimitInfo.lastUpdated < now

----------------------------------------------------------------------------
(* C16: observing the header "user-hour-rem:1000;" sets hourlyRemaining to  *)
(* 1000 and leaves hourlyLimit at its prior value, whatever that was.       *)

RemainingOnlyHeaderKeepsLimit ==
    [][\A p \in DOMAIN pipe :
          (Observed(p) /\ pipe'[p].response.rateLimit = RateLimitHeaderRemOnly) =>
              /\ rateLimitInfo'.hourlyRemaining = Num(1000)
              /\ rateLimitInfo'.hourlyLimit = rateLimitInfo.hourlyLimit]_vars

\* The partial header observed by a tracker whose limit is not the default
RemainingOnlyObserved ==
    \E p \in DOMAIN pipe :
        /\ pipe[p].response.rateLimit = RateLimitHeaderRemOnly
        /\ rateLimitInfo.hourlyLimit = Num(5000)
        /\ rateLimitInfo.hourlyRemaining = Num(1000)

----------------------------------------------------------------------------
(* C17: a header segment with a recognized key and a missing or             *)
(* non-integer value is skipped, so hourlyLimit and hourlyRemaining are     *)
(* integers in every reachable state.                                       *)

TrackerFieldsAreIntegers ==
    /\ rateLimitInfo.hourlyLimit.t = "num"
    /\ rateLimitInfo.hourlyRemaining.t = "num"

----------------------------------------------------------------------------
(* C18: with pipelines running concurrently, the tracker never holds, at a  *)
(* point where any of them can read it, the limit of one two-key header     *)
(* together with the remaining of another: it holds the defaults or both    *)
(* values of one header.                                                    *)

\* The pairs of limit and remaining the service reports, and the defaults
ReportedQuotas ==
    {<<Num(3600), Num(3600)>>, <<Num(3600), Num(450)>>, <<Num(5000), Num(99)>>}

TrackerNeverHalfUpdated ==
    <<rateLimitInfo.hourlyLimit, rateLimitInfo.hourlyRemaining>> \in ReportedQuotas

\* Two calls in flight at once were answered with different quota headers,
\* and the tracker holds both values of the later one
TwoPipelinesObservedDifferentQuotas ==
    /\ pipe[1].pc = "parsing" /\ pipe[1].response.rateLimit = RateLimitHeaderWarn
    /\ pipe[2].pc = "parsing" /\ pipe[2].response.rateLimit = RateLimitHeaderLow
    /\ rateLimitInfo.hourlyLimit = Num(5000)
    /\ rateLimitInfo.hourlyRemaining = Num(99)

----------------------------------------------------------------------------
(* C19: calculateBackoff(n, base, max) is at least base * 2^n capped at    *)
(* max, at most base * 2^n * 1.25 and never greater than max, for every     *)
(* jitter draw.                                                             *)

BackoffReturned == call.fn = "calculateBackoff" /\ call.returned

ExponentialDelay == call.args.baseDelay * Pow2(call.args.attempt)

BackoffWithinCappedWindow ==
    BackoffReturned =>
        /\ call.result >= Min(ExponentialDelay, call.args.maxDelay)
        /\ 4 * call.result <= 5 * ExponentialDelay
        /\ call.result <= call.args.maxDelay

\* The exponential term is beyond the maximum and the maximum is returned
BackoffCapped ==
    /\ BackoffReturned
    /\ ExponentialDelay > call.args.maxDelay
    /\ call.result = call.args.maxDelay

\* The statement with the uncapped lower end: the delay lies in
\* [base * 2^n, min(base * 2^n * 1.25, max)]
BackoffWithinWindow ==
    BackoffReturned =>
        /\ call.result >= ExponentialDelay
        /\ 4 * call.result <= 5 * ExponentialDelay
        /\ call.result <= call.args.maxDelay

----------------------------------------------------------------------------
(* C20: for every status and for a body that is a problem list, a string    *)
(* or null, parseErrorResponse gives a Service Error that carries the       *)
(* status and has isRetryable = true exactly when status >= 500 or          *)
(* status = 429.                                                            *)

RetryableExactlyForServerErrorsAnd429 ==
    (/\ call.fn = "parseErrorResponse" /\ call.returned
     /\ call.args.body \in {"problems", "string", "null"}) =>
        /\ ~call.result.threw
        /\ call.result.error.type = "AppStoreConnectError"
        /\ call.result.error.status = call.args.status
        /\ call.result.error.isRetryable <=>
              (call.args.status >= 500 \/ call.args.status = 429)

\* A 429 with a string body has been classified
RateLimitStatusClassified ==
    /\ call.fn = "parseErrorResponse" /\ call.returned
    /\ call.args.status = 429 /\ call.args.body = "string"
    /\ call.result.error.isRetryable

----------------------------------------------------------------------------
(* C25: a DELETE call that was handed a body issues requests that carry it *)
(* as their payload, as post and patch do: the caller's body is not        *)
(* dropped.  (Violated: del has no body parameter, so the body that        *)
(* remove_build_from_beta_group hands to it never becomes options.body.)   *)

SuppliedBodyIsSent ==
    \A p \in DOMAIN pipe :
        (pipe[p].bodyArg /\ Count(pipe[p].log, "request") > 0)
            => pipe[p].hasBody

----------------------------------------------------------------------------
(* C26: in every reachable tracker state isApproachingLimit() is true      *)
(* exactly when hourlyRemaining is a number below 100: 99 gives true, 100  *)
(* gives false.                                                            *)

Remaining == rateLimitInfo.hourlyRemaining

NearLimitExactlyBelow100 ==
    /\ IsApproachingLimit(rateLimitInfo) <=> (Remaining.t = "num" /\ Remaining.v < 100)
    /\ Remaining = Num(99) => IsApproachingLimit(rateLimitInfo)
    /\ Remaining = Num(100) => ~IsApproachingLimit(rateLimitInfo)

RemainingAt100Observed ==
    /\ Remaining = Num(100)
    /\ \E p \in DOMAIN pipe : Count(pipe[p].log, "observe") > 0

----------------------------------------------------------------------------
(* C27: in every reachable tracker state shouldWarnAboutRateLimit() is     *)
(* true exactly when hourlyRemaining is a number below 500: 499 gives      *)
(* true, 500 gives false.                                                  *)

WarnExactlyBelow500 ==
    /\ ShouldWarnAboutRateLimit(rateLimitInfo) <=> (Remaining.t = "num" /\ Remaining.v < 500)
    /\ Remaining = Num(499) => ShouldWarnAboutRateLimit(rateLimitInfo)
    /\ Remaining = Num(500) => ~ShouldWarnAboutRateLimit(rateLimitInfo)

RemainingAt500Observed ==
    /\ Remaining = Num(500)
    /\ \E p \in DOMAIN pipe : Count(pipe[p].log, "observe") > 0

----------------------------------------------------------------------------
(* C28: whenever a 429 response arrives on attempt n < 2 with a            *)
(* Retry-After header holding an integer s >= 0 (0 included) the call      *)
(* sleeps exactly s*1000 ms before the next attempt; computeDelay(n) is    *)
(* used only when the header is absent.  (Violated: Retry-After: 0 parses  *)
(* to 0, which is falsy, so the backoff delay is slept instead of 0 ms.)   *)

\* The call sleeps on the 429 answer of its current attempt
SleepingOnRateLimit(m) ==
    /\ m.pc = "sleeping"
    /\ Len(m.resps) >= 1
    /\ m.resps[Len(m.resps)].status = 429
    /\ \E i \in Positions(m.log, "response") : m.log[i].n = m.attempt

\* The delay of the sleep a sleeping call is in
CurrentSleep(m) == m.log[Len(m.log)].x

RetryAfterIsSleptExactly ==
    \A p \in DOMAIN pipe :
        LET m == pipe[p]
            s == StatedRetryAfter(m.resps[Len(m.resps)])
        IN SleepingOnRateLimit(m) =>
              /\ m.attempt < 2
              /\ IsSleep(m.log[Len(m.log)])
              /\ IF s.t = "num" /\ s.v >= 0
                 THEN CurrentSleep(m) = s.v * 1000
                 ELSE IsComputeDelay(CurrentSleep(m), m.attempt)

----------------------------------------------------------------------------
(* C29: every sleep between attempts lasts at most 60000 ms, whatever the  *)
(* server sends.  That holds for the delays of the backoff calculator      *)
(* only: a sleep on a 429 answer that states a positive Retry-After of s   *)
(* seconds lasts s*1000 ms, with no upper limit.                           *)

EverySleepAtMostSixtySeconds ==
    \A p \in DOMAIN pipe :
        \A i \in Positions(pipe[p].log, "sleep") : pipe[p].log[i].x <= 60000

SleepIsStatedHintOrCappedBackoff ==
    \A p \in DOMAIN pipe :
        LET m == pipe[p]
            s == StatedRetryAfter(m.resps[Len(m.resps)])
        IN m.pc = "sleeping" =>
              /\ IsSleep(m.log[Len(m.log)])
              /\ IF SleepingOnRateLimit(m) /\ Truthy(s)
                 THEN CurrentSleep(m) = s.v * 1000
                 ELSE CurrentSleep(m) <= 60000

SleptLongerThanSixtySeconds ==
    \E p \in DOMAIN pipe :
        /\ SleepingOnRateLimit(pipe[p])
        /\ CurrentSleep(pipe[p]) = 120000

----------------------------------------------------------------------------
(* C30: on each attempt that receives a response the advisory log is       *)
(* emitted exactly when the tracker reports near-limit (remaining < 100)   *)
(* once that response has been observed; emitting it adds no sleep and     *)
(* does not change the outcome of the attempt.  The log is tied to         *)
(* shouldWarnAboutRateLimit (remaining < 500), not to the near-limit test. *)

Warned(p) == Count(pipe'[p].log, "warn") > Count(pipe[p].log, "warn")

IsNoWarn(e) == e.k # "warn"

\* What the attempt does with the answer r when nothing is logged
QuietAttempt(p, r, draw) ==
    LET w0 == Received(World(p), r)
        w1 == [Log(w0, "observe", r.status) EXCEPT !.info = rateLimitInfo']
    IN Dispatch(w1, r, draw).m

\* The step leaves call p as the quiet attempt does, the log entry aside
SameAsQuietAttempt(p) ==
    \E draw \in JitterDraws :
        LET q == QuietAttempt(p, pipe'[p].resps[Len(pipe'[p].resps)], draw)
        IN /\ SelectSeq(pipe'[p].log, IsNoWarn) = SelectSeq(q.log, IsNoWarn)
           /\ pipe'[p].outcome = q.outcome
           /\ pipe'[p].pc = q.pc
           /\ pipe'[p].wakeAt = q.wakeAt
           /\ pipe'[p].attempt = q.attempt

AdvisoryLogExactlyWhenNearLimit ==
    [][\A p \in DOMAIN pipe :
          Observed(p) =>
              /\ Warned(p) <=> (rateLimitInfo'.hourlyRemaining.t = "num"
                                  /\ rateLimitInfo'.hourlyRemaining.v < 100)
              /\ SameAsQuietAttempt(p)]_vars

AdvisoryLogExactlyBelowWarnThreshold ==
    [][\A p \in DOMAIN pipe :
          Observed(p) =>
              /\ Warned(p) <=> (rateLimitInfo'.hourlyRemaining.t = "num"
                                  /\ rateLimitInfo'.hourlyRemaining.v < 500)
              /\ SameAsQuietAttempt(p)]_vars

\* The advisory log was written for a tracker that is not near its limit, on
\* an attempt that then slept
WarnedAbove100ThenSlept ==
    \E p \in DOMAIN pipe :
        /\ pipe[p].pc = "sleeping"
        /\ rateLimitInfo.hourlyRemaining = Num(450)
        /\ Len(pipe[p].log) >= 2
        /\ pipe[p].log[Len(pipe[p].log) - 1].k = "warn"

----------------------------------------------------------------------------
(* C21: getAllPages issues one GET per page, the first to the URL built    *)
(* from endpoint and params and each later one to exactly the next link of *)
(* the previous response, stops at the first response without a next link, *)
(* and returns the concatenation of the pages' data arrays in the order    *)
(* the pages were fetched.                                                 *)

IsFetch(e) == e.k = "fetch"

\* The URLs a call has fetched, in order
FetchedUrls(m) == [i \in 1..Len(SelectSeq(m.log, IsFetch)) |-> SelectSeq(m.log, IsFetch)[i].x]

\* The response is a well-formed page
IsPage(r) == r.status = 200 /\ r.body = "json"

HasNextLink(r) == IsPage(r) /\ r.page.next \notin {"absent", ""}

RECURSIVE DataOfPages(_)
DataOfPages(rs) ==
    IF rs = <<>> THEN <<>>
    ELSE DataOfPages(SubSeq(rs, 1, Len(rs) - 1)) \o rs[Len(rs)].page.data

PagerFollowsNextLinksAndConcatenates ==
    \A p \in DOMAIN pipe :
        LET m == pipe[p]
            urls == FetchedUrls(m)
        IN /\ Len(urls) >= 1 => urls[1] = FirstUrl
           /\ Len(urls) \in {Len(m.resps), Len(m.resps) + 1}
           /\ \A i \in 2..Len(urls) :
                 HasNextLink(m.resps[i - 1]) /\ urls[i] = m.resps[i - 1].page.next
           /\ (Len(m.resps) >= 1 /\ IsPage(m.resps[Len(m.resps)])
                 /\ ~HasNextLink(m.resps[Len(m.resps)]) /\ m.pc # "pageParsing") =>
                 /\ Done(m)
                 /\ m.outcome.kind = "ok"
                 /\ Len(urls) = Len(m.resps)
           /\ (Done(m) /\ m.outcome.kind = "ok") =>
                 /\ Len(m.resps) >= 1
                 /\ ~HasNextLink(m.resps[Len(m.resps)])
                 /\ \A i \in 1..Len(m.resps) : IsPage(m.resps[i])
                 /\ m.allData = DataOfPages(m.resps)

ThreePagesCollected ==
    \E p \in DOMAIN pipe :
        /\ Done(pipe[p])
        /\ pipe[p].outcome.kind = "ok"
        /\ FetchedUrls(pipe[p]) = <<FirstUrl, "page3", "page2">>
        /\ pipe[p].allData = <<"b", "c", "a", "b", "c">>

----------------------------------------------------------------------------
(* C22: in getAllPages a page fetch answered with a non-2xx status raises  *)
(* the classified error at once and ends pagination: no retry, no sleep,   *)
(* no invalidation of the credential, no further page, no partial          *)
(* collection returned; the rate-limit header of the failed response is    *)
(* still observed.  (Violated: a body whose errors member is no array      *)
(* makes the classifier throw a TypeError, which is raised instead.)       *)

FailedPage(m) == Len(m.resps) >= 1 /\ ~IsOk(m.resps[Len(m.resps)].status)

FailedPageRaisesClassifiedError ==
    \A p \in DOMAIN pipe :
        LET m == pipe[p]
            r == m.resps[Len(m.resps)]
        IN FailedPage(m) =>
              /\ m.pc \in {"pageParsingError", "done"}
              /\ Len(FetchedUrls(m)) = Len(m.resps)
              /\ Count(m.log, "sleep") = 0
              /\ Count(m.log, "invalidate") = 0
              /\ Count(m.log, "observe") = Len(m.resps)
              /\ m.log[Len(m.log)] = Ev("observe", r.status, 0)
              /\ serverQuota # NoHeader => rateLimitInfo.hourlyRemaining = Num(450)
              /\ Done(m) =>
                    /\ m.outcome.kind = "error"
                    /\ m.outcome.data = "none"
                    /\ m.outcome.error.type = "AppStoreConnectError"
                    /\ m.outcome.error.status = r.status
                    /\ m.outcome.error.isRetryable = (r.status >= 500 \/ r.status = 429)

----------------------------------------------------------------------------
(* C23: every error raised by a tool handler, each terminal failure of the *)
(* pipeline included, is turned by the wrapper into a tool result whose    *)
(* text is formatErrorForMcp(error) and whose error flag is set; the       *)
(* wrapper never lets the error propagate, and a handler that returns      *)
(* normally yields its own result unchanged, without the error flag.       *)

WrapperAnswersEveryError ==
    \A p \in DOMAIN server.handled :
        LET h == server.handled[p] IN
        /\ Done(pipe[p])
        /\ pipe[p].outcome.kind = "error" => h.settled = pipe[p].outcome
        /\ ~h.answer.thrown
        /\ h.settled.kind = "error" =>
              /\ h.answer.isError
              /\ h.answer.content = FormatErrorForMcp(h.settled.error)
              /\ h.answer.content.head # "result"
        /\ h.settled.kind = "ok" =>
              /\ ~h.answer.isError
              /\ h.answer.content = ResultOf(pipe[p].outcome.data)

\* A call that ran out of attempts on 429 answers was answered with the
\* flagged text that names the seconds to wait
RateLimitErrorAnswered ==
    \E p \in DOMAIN server.handled :
        /\ pipe[p].outcome.error.type = "RateLimitError"
        /\ server.handled[p].answer.isError
        /\ server.handled[p].answer.content.retryAfter = Num(120)

----------------------------------------------------------------------------
(* C24: at startup the configuration is validated before any tool or       *)
(* resource is registered and before the transport is connected; when      *)
(* validation fails the process exits with a failure status and never      *)
(* serves calls, so no outbound request is ever attempted.                 *)

StartupValidatesFirst ==
    /\ (server.tools \/ server.resources \/ server.transport) =>
          (server.validated /\ configOk)
    /\ (server.validated /\ ~configOk) => (server.phase = "exited" /\ server.exitCode # 0)
    /\ ~configOk =>
          /\ server.phase \in {"loaded", "exited"}
          /\ DOMAIN server.handled = {}
          /\ \A p \in DOMAIN pipe : pipe[p].pc = "idle" /\ pipe[p].log = <<>>
          /\ signCount = 0

ExitedOnInvalidConfig ==
    /\ ~configOk
    /\ server.phase = "exited"
    /\ server.exitCode = 1

----------------------------------------------------------------------------
(* C31: every call that ends with an AuthenticationError has invalidated   *)
(* the credential cache exactly once and retried once after that, whatever *)
(* was answered earlier in the call.  (Violated: the cache is invalidated  *)
(* on attempt 0 only, so a first 401/403 on attempt 1 or 2 ends the call   *)
(* with no invalidation and no retry.)                                     *)

EndedWithAuthenticationError(m) ==
    Done(m) /\ m.outcome.kind = "error" /\ m.outcome.error.type = "AuthenticationError"

AuthErrorOnlyAfterInvalidationRetry ==
    \A p \in DOMAIN pipe :
        LET m == pipe[p] IN
        EndedWithAuthenticationError(m) =>
            /\ Count(m.log, "invalidate") = 1
            /\ \A i \in Positions(m.log, "invalidate") :
                  \E j \in Positions(m.log, "request") : j > i

----------------------------------------------------------------------------
(* C32: a call invalidates the credential cache at most once, and only in  *)
(* answer to a 401/403 received on attempt 0: every invalidation in the    *)
(* record of a call stands on attempt 0 right after the observation of     *)
(* such a response, and no other response or failure is followed by one.   *)

IsNoWarnOrSign(e) == e.k \notin {"warn", "sign"}

\* The steps of a call without advisory logs and signatures
Trace(m) == SelectSeq(m.log, IsNoWarnOrSign)

AtMostOneInvalidationOnFirstAuthFailure ==
    \A p \in DOMAIN pipe :
        LET tr == Trace(pipe[p]) IN
        /\ Count(tr, "invalidate") <= 1
        /\ \A i \in Positions(tr, "invalidate") :
              /\ i >= 3
              /\ tr[i].n = 0
              /\ tr[i - 1].k = "observe"
              /\ tr[i - 2].k = "response"
              /\ tr[i - 2].n = 0
              /\ tr[i - 2].x \in {401, 403}
        /\ (cachedToken = NoToken /\ signCount > 0) => Count(tr, "invalidate") = 1

\* A call that was answered 401 on attempts 0 and 1 has invalidated once
InvalidatedOnceOnTwoRejections ==
    \E p \in DOMAIN pipe :
        /\ Done(pipe[p])
        /\ Count(pipe[p].log, "invalidate") = 1
        /\ Len(pipe[p].resps) = 2
        /\ pipe[p].resps[1].status = 401
        /\ pipe[p].resps[2].status = 403

----------------------------------------------------------------------------
(* C33: with no clearTokenCache in between, two successive signatures are  *)
(* at least 1080 seconds of clock time apart (1200 s lifetime minus 120 s  *)
(* margin).  The signer reads the clock in whole seconds, so the 1080      *)
(* seconds hold between the seconds read; the instants themselves are      *)
(* more than 1079 seconds apart.                                           *)

\* Entries i < j are signatures with no invalidation between them
SignedWithoutInvalidation(i, j) ==
    /\ i < j
    /\ signerLog[i].signed /\ signerLog[j].signed
    /\ NoInvalidateBetween(i, j)

SignaturesFullRefreshPeriodApart ==
    \A i, j \in 1..Len(signerLog) :
        SignedWithoutInvalidation(i, j) => signerLog[j].at - signerLog[i].at >= 1080 * 1000

SignaturesRefreshPeriodApartInWholeSeconds ==
    \A i, j \in 1..Len(signerLog) :
        SignedWithoutInvalidation(i, j) =>
            /\ NowSeconds(signerLog[j].at) - NowSeconds(signerLog[i].at) >= 1080
            /\ signerLog[j].at - signerLog[i].at > 1079 * 1000

\* A token signed late in second 0 and its successor signed early in second 1080
SignedAgainWithinTheRefreshPeriod ==
    \E i, j \in 1..Len(signerLog) :
        /\ SignedWithoutInvalidation(i, j)
        /\ signerLog[j].at - signerLog[i].at = 1079001

----------------------------------------------------------------------------
(* C34: getRateLimitStatus() returns a copy of the tracker state: an       *)
(* assignment to a field of a returned object leaves the tracker state,    *)
(* the other returned objects, later results, isApproachingLimit() and     *)
(* shouldWarnAboutRateLimit() as they were, and a result equals every      *)
(* earlier untouched result taken since the last observation.              *)

\* The fields of the i-th held object, before and after the step
Fields(i) == Deref(snapshots.held[i], rateLimitInfo)

FieldsAfter(i) == Deref(snapshots'.held[i], rateLimitInfo')

SnapshotIsACopy ==
    [][/\ snapshots'.op = "write" =>
             /\ rateLimitInfo' = rateLimitInfo
             /\ IsApproachingLimit(rateLimitInfo') = IsApproachingLimit(rateLimitInfo)
             /\ ShouldWarnAboutRateLimit(rateLimitInfo') =
                   ShouldWarnAboutRateLimit(rateLimitInfo)
             /\ \A i \in 1..Len(snapshots.held) :
                   i # snapshots'.target => FieldsAfter(i) = Fields(i)
       /\ snapshots'.op = "take" =>
             /\ rateLimitInfo' = rateLimitInfo
             /\ FieldsAfter(snapshots'.target) = rateLimitInfo
             /\ \A i \in 1..Len(snapshots.held) : FieldsAfter(i) = Fields(i)
       /\ snapshots'.op = "observe" =>
             \A i \in 1..Len(snapshots.held) : FieldsAfter(i) = Fields(i)]_vars

\* A caller has zeroed hourlyRemaining in its result, then taken another one,
\* while the tracker holds what the last response reported
SnapshotWrittenThenTakenAgain ==
    /\ Len(snapshots.held) = 2
    /\ snapshots.held[1].obj.hourlyRemaining = Num(0)
    /\ snapshots.held[2].obj.hourlyRemaining = Num(450)
    /\ rateLimitInfo.hourlyRemaining = Num(450)
    /\ ~IsApproachingLimit(rateLimitInfo)

----------------------------------------------------------------------------
(* C35: the fallback error "Request failed after maximum retries" is never *)
(* raised: whenever the loop runs out of attempts without raising, a last  *)
(* error has been recorded and that error is the one raised.               *)

\* The loop test has failed: attempt++ has reached MAX_RETRIES
LoopRanOut(m) == Done(m) /\ m.attempt = MAX_RETRIES

FallbackErrorIsNeverRaised ==
    \A p \in DOMAIN pipe :
        LET m == pipe[p] IN
        /\ Done(m) => m.outcome.error.detail # "Request failed after maximum retries"
        /\ LoopRanOut(m) =>
              /\ m.lastError # NoError
              /\ m.outcome.kind = "error"
              /\ m.outcome.error = m.lastError

\* The loop ran out after two 429 answers, which record no error, and a
\* transport failure
LoopRanOutAfterRateLimits ==
    \E p \in DOMAIN pipe :
        /\ LoopRanOut(pipe[p])
        /\ Len(pipe[p].resps) = 2
        /\ pipe[p].resps[1].status = 429
        /\ pipe[p].resps[2].status = 429
        /\ pipe[p].outcome.error = GenericError("fetch failed")

----------------------------------------------------------------------------
(* C39: when a call ends by raising after its attempts are used up, the    *)
(* error raised is the one the final attempt (index 2) produced, never one *)
(* remembered from an earlier attempt: a 5xx on attempt 0 followed by      *)
(* transport failures on attempts 1 and 2 raises the transport error.      *)

\* The events of attempt n in the record of a call
EventsOf(m, n) == {i \in 1..Len(m.log) : m.log[i].n = n}

\* The error an answer gives rise to
ErrorOfResponse(r) ==
    IF IsOk(r.status) THEN GenericError("SyntaxError")
    ELSE IF r.status \in {401, 403} THEN AuthenticationError(r.status)
    ELSE IF r.status = 429 THEN RateLimitError(StatedRetryAfter(r))
    ELSE ParseErrorResponse(r.status, r.body).error

\* The error attempt 2 ended with: that of its answer, of the transport, or
\* of the signer when no request could be made
ErrorOfFinalAttempt(m) ==
    IF \E i \in EventsOf(m, 2) : m.log[i].k = "response"
    THEN ErrorOfResponse(m.resps[Len(m.resps)])
    ELSE IF \E i \in EventsOf(m, 2) : m.log[i].k = "reject"
    THEN GenericError("fetch failed")
    ELSE GenericError("config")

RaisedErrorIsOfFinalAttempt ==
    \A p \in DOMAIN pipe :
        LET m == pipe[p] IN
        (Done(m) /\ m.outcome.kind = "error" /\ m.attempt >= 2) =>
            m.outcome.error = ErrorOfFinalAttempt(m)

\* A 500 on attempt 0, an unparseable 200 on attempt 1 and a transport
\* failure on attempt 2
EarlierErrorsThenTransportFailure ==
    \E p \in DOMAIN pipe :
        /\ LoopRanOut(pipe[p])
        /\ Len(pipe[p].resps) = 2
        /\ pipe[p].resps[1].status = 500
        /\ pipe[p].resps[1].body = "problems"
        /\ pipe[p].resps[2].status = 200
        /\ pipe[p].outcome.error = GenericError("fetch failed")

----------------------------------------------------------------------------
(* C40: a call sleeps at most twice, every sleep is followed by another    *)
(* HTTP attempt, and nothing is slept after the attempt that ends the      *)
(* call.  (Violated: with the configuration missing the signer throws      *)
(* before fetch on every attempt; the call sleeps after attempts 0 and 1   *)
(* and no request follows either sleep.)                                   *)

SleepsAreFollowedByRequests ==
    \A p \in DOMAIN pipe :
        LET m == pipe[p] IN
        /\ Count(m.log, "sleep") <= 2
        /\ \A i \in Positions(m.log, "sleep") :
              LET steps == StepsAfter(m.log, i) IN
              /\ m.log[i].n < 2
              /\ steps = <<>> => m.pc = "sleeping"
              /\ steps # <<>> =>
                    (steps[1].k = "request" /\ steps[1].n = m.log[i].n + 1)

----------------------------------------------------------------------------
(* C36: the cache is replaced only as a whole and is, in every reachable   *)
(* state, either empty or a token with an expiry equal to the instant of   *)
(* its signing plus 1200 seconds; no operation changes the expiry of a     *)
(* cached token or the token of a cached expiry.                           *)

\* The second in which the cached token was signed, from the record of calls
SignedInSecond(token) ==
    {NowSeconds(signerLog[i].at) : i \in {k \in 1..Len(signerLog) :
                                             signerLog[k].signed /\ signerLog[k].token = token}}

CacheIsEmptyOrWholeToken ==
    cachedToken # NoToken =>
        /\ cachedToken.token >= 1
        /\ SignedInSecond(cachedToken.token) = {cachedToken.expiresAt - 1200}

CacheReplacedOnlyAsAWhole ==
    [][/\ CacheIsEmptyOrWholeToken'
       /\ (cachedToken # NoToken /\ cachedToken' # NoToken /\ cachedToken' # cachedToken) =>
             /\ cachedToken'.token # cachedToken.token
             /\ cachedToken'.token = signCount'
             /\ signCount' = signCount + 1
             /\ cachedToken'.expiresAt = NowSeconds(now) + 1200]_vars

\* A stale token was replaced by a newly signed one with a later expiry
StaleTokenReplaced ==
    /\ cachedToken.token = 2
    /\ cachedToken.expiresAt = 1080 + 1200
    /\ Len(signerLog) = 2
    /\ signerLog[1].exp = 1200

----------------------------------------------------------------------------
(* C37: with several pipelines in flight, the retry that follows a 401/403 *)
(* on attempt 0 sends a token signed after that rejection: invalidation,   *)
(* signing and the request of attempt 1 happen in one step of the pipeline *)
(* and the token sent was not in the cache before the invalidation.        *)

Invalidates(p) == Count(pipe[p].log', "invalidate") > Count(pipe[p].log, "invalidate")

RetryAfterRejectionSendsNewToken ==
    [][\A p \in DOMAIN pipe :
          Invalidates(p) =>
              LET before == pipe[p].log
                  after  == pipe[p].log'
                  i      == CHOOSE k \in Positions(after, "invalidate") : k > Len(before)
              IN /\ \E j \in (Len(before) + 1)..(i - 1) :
                       after[j] \in {Ev("response", 401, 0), Ev("response", 403, 0)}
                 /\ Len(after) = i + 2
                 /\ after[i] = Ev("invalidate", 0, 0)
                 /\ after[i + 1] = Ev("sign", signCount + 1, 1)
                 /\ after[i + 2] = Ev("request", signCount + 1, 1)
                 /\ signCount' = signCount + 1
                 /\ cachedToken # NoToken => cachedToken.token <= signCount
                 /\ \A q \in DOMAIN pipe : q # p => pipe[q]' = pipe[q]]_vars

\* Both pipelines sent token 1, both were rejected, each retried with its own
BothPipelinesRetriedWithNewTokens ==
    /\ signCount = 3
    /\ \A p \in DOMAIN pipe :
          /\ Count(pipe[p].log, "invalidate") = 1
          /\ \E i \in Positions(pipe[p].log, "request") :
                pipe[p].log[i].n = 0 /\ pipe[p].log[i].x = 1

----------------------------------------------------------------------------
(* C38: the cache check and the signing are one indivisible step: when the *)
(* pipelines start together on a cache that is empty or near its expiry    *)
(* and none of them receives 401/403, the signing primitive is invoked     *)
(* exactly once and every request of every pipeline carries that token.    *)

\* Every event of kind k in the logs of all pipelines, as <<pipeline, position>>
AllPositions(k) ==
    UNION {{<<p, i>> : i \in Positions(pipe[p].log, k)} : p \in DOMAIN pipe}

NoAuthRejection ==
    \A e \in AllPositions("response") : ~IsAuthFailure(pipe[e[1]].log[e[2]].x)

\* What the signer had issued when the pipelines started
SignedAtStart == signCount - Cardinality(AllPositions("sign"))

SignedOnceForAllPipelines ==
    NoAuthRejection =>
        /\ Cardinality(AllPositions("sign")) <= 1
        /\ AllPositions("request") # {} =>
              /\ Cardinality(AllPositions("sign")) = 1
              /\ signCount = SignedAtStart + 1
              /\ \A e \in AllPositions("request") : pipe[e[1]].log[e[2]].x = signCount
              /\ cachedToken.token = signCount

\* Both pipelines finished after retries on a cache that started near expiry
BothPipelinesSentTheOneNewToken ==
    /\ NoAuthRejection
    /\ signCount = 2
    /\ \A p \in DOMAIN pipe : Done(pipe[p]) /\ Count(pipe[p].log, "request") = 3

====
